---- MODULE Spec2Model ----
(***************************************************************************)
(* Model of SceneManager (src/SceneManager.cpp): the texture registry, the *)
(* material registry, the shader parameter facade, the transformation      *)
(* composer and the call sequence of RenderScene.                          *)
(*                                                                         *)
(* Floats are fixed-point integers (value * 100); a vec3/vec4 is a tuple.  *)
(* Matrices and the arguments of SetTransformations are in thousandths.    *)
(* setIntValue(name, true/false) is the integer 1/0, as in the source.     *)
(***************************************************************************)
EXTENDS Integers, Sequences, FiniteSets, TLC

VARIABLES
    m_pShaderManager,   \* "NULL" or "shader": the pointer the constructor stores
    m_basicMeshes,      \* "ShapeMeshes" (allocated by the constructor) or "NULL"
    m_textureIDs,       \* array [0..MaxTextureSlots-1] of [ID, tag]
    m_loadedTextures,   \* number of registered textures
    m_objectMaterials,  \* std::vector<OBJECT_MATERIAL>, a sequence
    uniforms,           \* uniform values of the shader program behind m_pShaderManager
    glTextures,         \* GL texture names generated so far (never deleted by this code)
    glTextureUnits,     \* per texture unit: the name bound to GL_TEXTURE_2D (0 = none)
    glActiveTexture,    \* index of the active texture unit (glActiveTexture)
    imageBuffers,       \* decoded images (stbi_load) not yet passed to stbi_image_free
    outMaterial,        \* the caller's OBJECT_MATERIAL after the last FindMaterial call
    lastCall,           \* [op, tag, ok, val, arg, prev]: the last method call and its result
    lastWrites,         \* the uniform writes <<name, value>> of the last call, in order
    fault,              \* "none", or the undefined behaviour the program ran into
    pc,                 \* 0: RenderScene is not running; k: its k-th call is next
    sinceDraw,          \* setters RenderScene called since its last mesh draw
    sinceStart,         \* setters RenderScene called since it was entered
    drawLog,            \* the mesh draws RenderScene issued since it was entered
    cmdLog,             \* the shader setters a recorded trace has called, in order
    writeLog,           \* the uniform writes of those calls, in order
    written,            \* names of the uniforms written since RenderScene was entered
    prepPc,             \* 0: PrepareScene is not running; k: its k-th call is next
    setupLog,           \* the calls PrepareScene made, with their results
    loadedMeshes        \* the meshes loaded into m_basicMeshes

texVars    == <<m_textureIDs, m_loadedTextures>>
glVars     == <<glTextures, glTextureUnits, glActiveTexture, imageBuffers>>
renderVars == <<pc, sinceDraw, sinceStart, drawLog, cmdLog, writeLog, written,
               prepPc, setupLog, loadedMeshes>>
vars       == <<m_pShaderManager, m_basicMeshes, m_textureIDs, m_loadedTextures,
                m_objectMaterials, uniforms, glTextures, glTextureUnits,
                glActiveTexture, imageBuffers, outMaterial, lastCall, lastWrites, fault,
                pc, sinceDraw, sinceStart, drawLog, cmdLog, writeLog, written,
                prepPc, setupLog, loadedMeshes>>

----------------------------------------------------------------------------
(* Bounds of the model *)

MaxLoads     == 2    \* successful texture loads explored by Spec
MaxGLNames   == 3    \* GL texture names generated in Spec (registered or leaked)
MaxMaterials == 6    \* length of m_objectMaterials explored by SpecMaterial
MaxTeardownNames == 6   \* GL texture names generated in SpecTeardown
MaxRenderLoads == 1     \* successful texture loads before the first frame in SpecRender
MaxTraceLoads == 2      \* successful texture loads before a recorded trace in SpecTrace
MaxTraceCommands == 3   \* shader setters called in a recorded trace
MaxFailedLoads == 1     \* texture files of the scene that fail to load in SpecScene

(* Program constants *)

MaxPointLights == 8     \* capacity of the shader's pointLights array
MaxTextureSlots == 16   \* capacity of m_textureIDs ("There are up to 16 slots")

NoImage == [decoded |-> FALSE, channels |-> 0]

\* what stbi_load can hand back: a failure, or pixel data with 1..4 channels
Images == {NoImage} \cup {[decoded |-> TRUE, channels |-> c] : c \in 1..4}

\* an image CreateGLTexture uploads and registers
ValidImage(image) == image.decoded /\ image.channels \in {3, 4}

TextureTags  == {"wood", "metal"}
LookupTags   == TextureTags \cup {"absent"}
CapacityTags == {"wood"}

Colors == {<<100, 100, 100, 100>>, <<20, 40, 60, 20>>}
UVs    == {<<500, 200>>}

Material(tag, d, s, sh) ==
    [tag |-> tag, diffuseColor |-> d, specularColor |-> s, shininess |-> sh]

\* the five materials DefineObjectMaterials pushes, in order
plasticMaterial == Material("plastic", <<500, 500, 500>>, <<500, 500, 500>>, 3000)
woodMaterial    == Material("wood",    <<20, 20, 30>>,    <<0, 0, 0>>,       10)
middleMaterial  == Material("middle",  <<0, 0, 0>>,       <<0, 0, 0>>,       500)
motherMaterial  == Material("mother",  <<20, 20, 30>>,    <<0, 0, 0>>,       2003)
glassMaterial   == Material("glass",   <<20, 20, 20>>,    <<100, 100, 100>>, 9500)

\* the scene's materials without the glass of the side panels
SceneMaterialsNoGlass ==
    <<plasticMaterial, woodMaterial, middleMaterial, motherMaterial>>

SceneMaterials ==
    <<plasticMaterial, woodMaterial, middleMaterial, motherMaterial, glassMaterial>>

\* materials a single push_back is tried with: one tag, two different values
PushedMaterials ==
    { Material("gold", <<80, 70, 10>>, <<60, 60, 60>>, 5000),
      Material("gold", <<1, 2, 3>>,    <<4, 5, 6>>,    700) }

MaterialTags == {"gold", "glass", "unknown"}

\* contents an OBJECT_MATERIAL local can have before it is assigned: the
\* source declares it without an initialiser
UninitMaterials ==
    { Material("", <<0, 0, 0>>, <<0, 0, 0>>, 0),
      Material("", <<-7, 13, 999>>, <<42, -1, 8>>, -300) }

UniformNames ==
    {"bUseTexture", "objectColor", "objectTexture", "blendTexture", "blendFactor",
     "UVscale", "material.diffuseColor", "material.specularColor",
     "material.shininess", "model", "bUseLighting"}
    \cup { "pointLights[" \o ToString(i) \o "]." \o field :
             i \in 0..(MaxPointLights - 1),
             field \in {"position", "ambient", "diffuse", "specular", "constant",
                        "linear", "quadratic", "bActive"} }

\* a 4x4 matrix with d on the diagonal (rows of thousandths)
Diagonal(d) ==
    << <<d, 0, 0, 0>>, <<0, d, 0, 0>>, <<0, 0, d, 0>>, <<0, 0, 0, d>> >>

\* uniform states the shader program can be in when the scene manager first
\* uses it: freshly linked (all zero) or left over from earlier use
FreshUniforms ==
    [n \in UniformNames |->
        CASE n = "objectColor"            -> <<0, 0, 0, 0>>
          [] n = "UVscale"                -> <<0, 0>>
          [] n = "material.diffuseColor"  -> <<0, 0, 0>>
          [] n = "material.specularColor" -> <<0, 0, 0>>
          [] n = "model"                  -> Diagonal(0)
          [] OTHER                        -> 0]

StaleUniforms ==
    [n \in UniformNames |->
        CASE n = "bUseTexture"            -> 1
          [] n = "objectColor"            -> <<9, 9, 9, 9>>
          [] n = "objectTexture"          -> 1
          [] n = "blendTexture"           -> 0
          [] n = "blendFactor"            -> 50
          [] n = "UVscale"                -> <<300, 300>>
          [] n = "material.diffuseColor"  -> <<70, 70, 70>>
          [] n = "material.specularColor" -> <<30, 30, 30>>
          [] n = "model"                  -> Diagonal(7000)
          [] OTHER                        -> 1600]

NoCall == [op |-> "none", tag |-> "", ok |-> TRUE, val |-> 0, arg |-> 0,
           prev |-> "none"]

\* the record of a call; prev is the method called just before it
Call(op, tag, ok, val, arg) ==
    [op |-> op, tag |-> tag, ok |-> ok, val |-> val, arg |-> arg,
     prev |-> lastCall.op]

----------------------------------------------------------------------------
(* Construction *)

\* the texture registry as the class declares it: 16 entries, none loaded
\* (the constructor body assigns neither m_textureIDs nor m_loadedTextures;
\* the registry starts empty, m_loadedTextures = 0)
EmptyTextureRegistry ==
    [i \in 0..(MaxTextureSlots - 1) |-> [ID |-> 0, tag |-> ""]]

Init ==
    /\ m_pShaderManager \in {"NULL", "shader"}
    /\ m_basicMeshes = "ShapeMeshes"
    /\ m_textureIDs = EmptyTextureRegistry
    /\ m_loadedTextures = 0
    /\ m_objectMaterials = <<>>
    /\ uniforms \in {FreshUniforms, StaleUniforms}
    /\ glTextures = {}
    /\ glTextureUnits = [u \in 0..(MaxTextureSlots - 1) |-> 0]
    /\ glActiveTexture = 0
    /\ imageBuffers = 0
    /\ outMaterial = Material("", <<0, 0, 0>>, <<0, 0, 0>>, 0)
    /\ lastCall = NoCall
    /\ lastWrites = <<>>
    /\ fault = "none"
    /\ pc = 0
    /\ sinceDraw = {}
    /\ sinceStart = {}
    /\ drawLog = <<>>
    /\ cmdLog = <<>>
    /\ writeLog = <<>>
    /\ written = {}
    /\ prepPc = 0
    /\ setupLog = <<>>
    /\ loadedMeshes = {}

----------------------------------------------------------------------------
(* ShaderManager: a uniform write stores the value under the name *)

RECURSIVE ApplyWrites(_, _)
ApplyWrites(u, ws) ==
    IF ws = <<>> THEN u
    ELSE ApplyWrites([u EXCEPT ![Head(ws)[1]] = Head(ws)[2]], Tail(ws))

\* the writes of a call issued last one first
ShaderWritesLastFirst(ws) ==
    /\ uniforms' = ApplyWrites(uniforms, ws)
    /\ lastWrites' = [i \in 1..Len(ws) |-> ws[Len(ws) + 1 - i]]

\* the call writes ws, in order, through m_pShaderManager
ShaderWrites(ws) ==
    /\ uniforms' = ApplyWrites(uniforms, ws)
    /\ lastWrites' = ws

----------------------------------------------------------------------------
(* Material registry *)

\* the while loop of FindMaterial: the state of (material, index, bFound)
\* when the loop exits
RECURSIVE FindMaterialLoopLast(_, _, _, _)
FindMaterialLoopLast(tag, material, index, bFound) ==
    IF index < Len(m_objectMaterials)
    THEN IF m_objectMaterials[index + 1].tag = tag
         THEN FindMaterialLoopLast(tag,
                  [material EXCEPT
                      !.diffuseColor  = m_objectMaterials[index + 1].diffuseColor,
                      !.specularColor = m_objectMaterials[index + 1].specularColor,
                      !.shininess     = m_objectMaterials[index + 1].shininess],
                  index + 1, TRUE)
         ELSE FindMaterialLoopLast(tag, material, index + 1, bFound)
    ELSE [material |-> material, index |-> index, bFound |-> bFound]

RECURSIVE FindMaterialLoop(_, _, _, _)
FindMaterialLoop(tag, material, index, bFound) ==
    IF index < Len(m_objectMaterials) /\ bFound = FALSE
    THEN IF m_objectMaterials[index + 1].tag = tag
         THEN FindMaterialLoop(tag,
                  [material EXCEPT
                      !.diffuseColor  = m_objectMaterials[index + 1].diffuseColor,
                      !.specularColor = m_objectMaterials[index + 1].specularColor,
                      !.shininess     = m_objectMaterials[index + 1].shininess],
                  index, TRUE)
         ELSE FindMaterialLoop(tag, material, index + 1, bFound)
    ELSE [material |-> material, index |-> index, bFound |-> bFound]

\* bool FindMaterial(tag, OBJECT_MATERIAL& material): the returned bool and
\* the content of the reference parameter after the call
FindMaterial(tag, material) ==
    IF Len(m_objectMaterials) = 0
    THEN [ret |-> FALSE, material |-> material]
    ELSE [ret |-> TRUE,
          material |-> FindMaterialLoop(tag, material, 0, FALSE).material]

\* one m_objectMaterials.push_back(material)
DefineMaterial(material) ==
    /\ fault = "none"
    /\ m_objectMaterials' = Append(m_objectMaterials, material)
    /\ lastCall' = Call("DefineMaterial", material.tag, TRUE, 0, 0)
    /\ lastWrites' = <<>>
    /\ UNCHANGED <<m_pShaderManager, m_basicMeshes, texVars, uniforms, glVars, outMaterial, fault>>

DefineObjectMaterials ==
    /\ fault = "none"
    /\ m_objectMaterials' = m_objectMaterials \o SceneMaterials
    /\ lastCall' = Call("DefineObjectMaterials", "", TRUE, 0, 0)
    /\ lastWrites' = <<>>
    /\ UNCHANGED <<m_pShaderManager, m_basicMeshes, texVars, uniforms, glVars, outMaterial, fault>>

\* a caller invoking FindMaterial(tag, material) on an OBJECT_MATERIAL that
\* holds `material` before the call; lastCall.arg is that prior shininess
CallFindMaterial(tag, material) ==
    /\ fault = "none"
    /\ LET r == FindMaterial(tag, material) IN
         /\ outMaterial' = r.material
         /\ lastCall' = Call("FindMaterial", tag, r.ret, 0, material.shininess)
    /\ lastWrites' = <<>>
    /\ UNCHANGED <<m_pShaderManager, m_basicMeshes, texVars, m_objectMaterials, uniforms, glVars, fault>>

\* a SetShaderMaterial that leaves the shader's material as it is
SetShaderMaterialSkipped(materialTag, material) ==
    /\ fault = "none"
    /\ lastCall' = Call("SetShaderMaterial", materialTag, TRUE, 0, 0)
    /\ lastWrites' = <<>>
    /\ UNCHANGED <<m_pShaderManager, m_basicMeshes, texVars, m_objectMaterials,
                   uniforms, glVars, outMaterial, fault>>

\* SetShaderMaterial(materialTag); `material` is the content of the local
\* OBJECT_MATERIAL, which is declared without an initialiser
SetShaderMaterialWith(materialTag, material) ==
    /\ fault = "none"
    /\ lastCall' = Call("SetShaderMaterial", materialTag, TRUE, 0, 0)
    /\ IF Len(m_objectMaterials) > 0
       THEN LET r == FindMaterial(materialTag, material) IN
            IF r.ret = TRUE
            THEN IF m_pShaderManager = "NULL"
                 THEN /\ fault' = "null_deref"
                      /\ lastWrites' = <<>>
                      /\ UNCHANGED uniforms
                 ELSE /\ ShaderWrites(
                          << <<"material.diffuseColor",  r.material.diffuseColor>>,
                             <<"material.specularColor", r.material.specularColor>>,
                             <<"material.shininess",     r.material.shininess>> >>)
                      /\ UNCHANGED fault
            ELSE /\ lastWrites' = <<>>
                 /\ UNCHANGED <<uniforms, fault>>
       ELSE /\ lastWrites' = <<>>
            /\ UNCHANGED <<uniforms, fault>>
    /\ UNCHANGED <<m_pShaderManager, m_basicMeshes, texVars, m_objectMaterials, glVars, outMaterial>>

SetShaderMaterial(materialTag) ==
    \E material \in UninitMaterials : SetShaderMaterialWith(materialTag, material)

MaterialRegistryNext ==
    \/ \E m \in PushedMaterials :
          /\ Len(m_objectMaterials) < MaxMaterials
          /\ DefineMaterial(m)
          /\ UNCHANGED renderVars
    \/ /\ Len(m_objectMaterials) + Len(SceneMaterials) <= MaxMaterials
       /\ DefineObjectMaterials
       /\ UNCHANGED renderVars
    \/ \E tag \in MaterialTags, m \in UninitMaterials :
          CallFindMaterial(tag, m) /\ UNCHANGED renderVars
    \/ \E tag \in MaterialTags : SetShaderMaterial(tag) /\ UNCHANGED renderVars

SpecMaterial == Init /\ [][MaterialRegistryNext]_vars

----------------------------------------------------------------------------
(* Texture registry *)

\* glGenTextures(1, &textureID): a name not in use; names are handed out in
\* increasing order starting at 1
GenName(names) ==
    CHOOSE n \in 1..(Cardinality(names) + 1) :
        /\ n \notin names
        /\ \A k \in 1..(n - 1) : k \in names

GenTexture == GenName(glTextures)

\* the channel counts CreateGLTexture uploads (GL_RGB8 or GL_RGBA8)
SupportedChannelsAny(colorChannels) == colorChannels >= 1

SupportedChannels(colorChannels) == colorChannels = 3 \/ colorChannels = 4

\* m_textureIDs[m_loadedTextures] = {textureID, tag}; m_loadedTextures++.
\* The source does not check the index: with all 16 entries in use the
\* write lands behind the array, which is undefined behaviour; the entries
\* of the array stay as they are and the counter, a neighbouring member,
\* ends up with any value.
RegisterTextureAtZero(textureID, tag) ==
    /\ m_textureIDs' = [m_textureIDs EXCEPT ![0] = [ID |-> textureID, tag |-> tag]]
    /\ m_loadedTextures' = m_loadedTextures + 1
    /\ UNCHANGED fault

RegisterTexture(textureID, tag) ==
    IF m_loadedTextures < MaxTextureSlots
    THEN /\ m_textureIDs' = [m_textureIDs EXCEPT
                                ![m_loadedTextures] = [ID |-> textureID, tag |-> tag]]
         /\ m_loadedTextures' = m_loadedTextures + 1
         /\ UNCHANGED fault
    ELSE /\ fault' = "oob_write"
         /\ m_loadedTextures' \in 0..(MaxTextureSlots + 1)
         /\ UNCHANGED m_textureIDs

\* a CreateGLTexture in which a failed load uses up a slot
CreateGLTextureSlotPerCall(image, tag) ==
    /\ fault = "none"
    /\ lastWrites' = <<>>
    /\ IF image.decoded /\ SupportedChannels(image.channels)
       THEN /\ glTextures' = glTextures \cup {GenTexture}
            /\ glTextureUnits' = [glTextureUnits EXCEPT ![glActiveTexture] = 0]
            /\ RegisterTexture(GenTexture, tag)
            /\ lastCall' = Call("CreateGLTexture", tag, TRUE,
                                m_loadedTextures, image.channels)
            /\ UNCHANGED <<glActiveTexture, imageBuffers>>
       ELSE /\ m_loadedTextures' = m_loadedTextures + 1
            /\ lastCall' = Call("CreateGLTexture", tag, FALSE, -1, image.channels)
            /\ UNCHANGED <<m_textureIDs, glVars, fault>>
    /\ UNCHANGED <<m_pShaderManager, m_basicMeshes, m_objectMaterials, uniforms, outMaterial>>

\* CreateGLTexture(filename, tag), `image` being what stbi_load returns for
\* the file. lastCall.val is the slot written, lastCall.arg the channel count.
CreateGLTexture(image, tag) ==
    /\ fault = "none"
    /\ lastWrites' = <<>>
    /\ IF image.decoded
       THEN LET textureID == GenTexture IN
            /\ glTextures' = glTextures \cup {textureID}
            /\ UNCHANGED glActiveTexture
            /\ IF SupportedChannels(image.channels)
               THEN /\ glTextureUnits' = [glTextureUnits EXCEPT ![glActiveTexture] = 0]
                    /\ UNCHANGED imageBuffers
                    /\ RegisterTexture(textureID, tag)
                    /\ lastCall' = Call("CreateGLTexture", tag, TRUE,
                                        m_loadedTextures, image.channels)
               ELSE /\ glTextureUnits' =
                          [glTextureUnits EXCEPT ![glActiveTexture] = textureID]
                    /\ imageBuffers' = imageBuffers + 1
                    /\ lastCall' = Call("CreateGLTexture", tag, FALSE,
                                        -1, image.channels)
                    /\ UNCHANGED <<texVars, fault>>
       ELSE /\ lastCall' = Call("CreateGLTexture", tag, FALSE, -1, 0)
            /\ UNCHANGED <<texVars, glVars, fault>>
    /\ UNCHANGED <<m_pShaderManager, m_basicMeshes, m_objectMaterials, uniforms, outMaterial>>

\* the while loop of FindTextureID: textureID when the loop exits
RECURSIVE FindTextureIDLoop(_, _, _, _)
FindTextureIDLoop(tag, textureID, index, bFound) ==
    IF index < m_loadedTextures /\ bFound = FALSE
    THEN IF m_textureIDs[index].tag = tag
         THEN FindTextureIDLoop(tag, m_textureIDs[index].ID, index, TRUE)
         ELSE FindTextureIDLoop(tag, textureID, index + 1, bFound)
    ELSE textureID

FindTextureID(tag) == FindTextureIDLoop(tag, -1, 0, FALSE)

\* the while loop of FindTextureSlot: textureSlot when the loop exits
RECURSIVE FindTextureSlotLoopLast(_, _, _, _)
FindTextureSlotLoopLast(tag, textureSlot, index, bFound) ==
    IF index < m_loadedTextures
    THEN IF m_textureIDs[index].tag = tag
         THEN FindTextureSlotLoopLast(tag, index, index + 1, TRUE)
         ELSE FindTextureSlotLoopLast(tag, textureSlot, index + 1, bFound)
    ELSE textureSlot

RECURSIVE FindTextureSlotLoop(_, _, _, _)
FindTextureSlotLoop(tag, textureSlot, index, bFound) ==
    IF index < m_loadedTextures /\ bFound = FALSE
    THEN IF m_textureIDs[index].tag = tag
         THEN FindTextureSlotLoop(tag, index, index, TRUE)
         ELSE FindTextureSlotLoop(tag, textureSlot, index + 1, bFound)
    ELSE textureSlot

FindTextureSlotOrCount(tag) == FindTextureSlotLoop(tag, m_loadedTextures, 0, FALSE)

FindTextureSlot(tag) == FindTextureSlotLoop(tag, -1, 0, FALSE)

CallFindTextureID(tag) ==
    /\ fault = "none"
    /\ lastCall' = Call("FindTextureID", tag, TRUE, FindTextureID(tag), 0)
    /\ lastWrites' = <<>>
    /\ UNCHANGED <<m_pShaderManager, m_basicMeshes, texVars, m_objectMaterials, uniforms, glVars,
                   outMaterial, fault>>

CallFindTextureSlot(tag) ==
    /\ fault = "none"
    /\ lastCall' = Call("FindTextureSlot", tag, TRUE, FindTextureSlot(tag), 0)
    /\ lastWrites' = <<>>
    /\ UNCHANGED <<m_pShaderManager, m_basicMeshes, texVars, m_objectMaterials, uniforms, glVars,
                   outMaterial, fault>>

\* the for loop of BindGLTextures from index i on: glActiveTexture(GL_TEXTURE0
\* + i), then glBindTexture(GL_TEXTURE_2D, m_textureIDs[i].ID)
RECURSIVE BindGLTexturesLoopNoActive(_, _, _)
BindGLTexturesLoopNoActive(i, units, active) ==
    IF i < m_loadedTextures
    THEN BindGLTexturesLoopNoActive(i + 1,
             [units EXCEPT ![active] = m_textureIDs[i].ID], active)
    ELSE [units |-> units, active |-> active]

RECURSIVE BindGLTexturesLoop(_, _, _)
BindGLTexturesLoop(i, units, active) ==
    IF i < m_loadedTextures
    THEN BindGLTexturesLoop(i + 1, [units EXCEPT ![i] = m_textureIDs[i].ID], i)
    ELSE [units |-> units, active |-> active]

BindGLTextures ==
    /\ fault = "none"
    /\ LET r == BindGLTexturesLoop(0, glTextureUnits, glActiveTexture) IN
         /\ glTextureUnits' = r.units
         /\ glActiveTexture' = r.active
    /\ lastCall' = Call("BindGLTextures", "", TRUE, 0, 0)
    /\ lastWrites' = <<>>
    /\ UNCHANGED <<m_pShaderManager, m_basicMeshes, texVars, m_objectMaterials,
                   uniforms, glTextures, imageBuffers, outMaterial, fault>>

\* the for loop of DestroyGLTextures from index i on: each iteration calls
\* glGenTextures(1, &m_textureIDs[i].ID), which stores a new name in the entry
RECURSIVE DestroyGLTexturesLoop(_, _, _)
DestroyGLTexturesLoop(i, ids, names) ==
    IF i < m_loadedTextures
    THEN DestroyGLTexturesLoop(i + 1,
             [ids EXCEPT ![i].ID = GenName(names)],
             names \cup {GenName(names)})
    ELSE [ids |-> ids, names |-> names]

DestroyGLTexturesReset ==
    /\ fault = "none"
    /\ LET r == DestroyGLTexturesLoop(0, m_textureIDs, glTextures) IN
         /\ m_textureIDs' = r.ids
         /\ glTextures' = r.names
    /\ m_loadedTextures' = 0
    /\ lastCall' = Call("DestroyGLTextures", "", TRUE, 0, 0)
    /\ lastWrites' = <<>>
    /\ UNCHANGED <<m_pShaderManager, m_basicMeshes, m_objectMaterials,
                   uniforms, glTextureUnits, glActiveTexture, imageBuffers,
                   outMaterial, fault>>

DestroyGLTextures ==
    /\ fault = "none"
    /\ LET r == DestroyGLTexturesLoop(0, m_textureIDs, glTextures) IN
         /\ m_textureIDs' = r.ids
         /\ glTextures' = r.names
    /\ lastCall' = Call("DestroyGLTextures", "", TRUE, 0, 0)
    /\ lastWrites' = <<>>
    /\ UNCHANGED <<m_pShaderManager, m_basicMeshes, m_loadedTextures,
                   m_objectMaterials, uniforms, glTextureUnits, glActiveTexture,
                   imageBuffers, outMaterial, fault>>

\* ~SceneManager(): m_pShaderManager = NULL; delete m_basicMeshes;
\* m_basicMeshes = NULL. Nothing else is released.
Destructor ==
    /\ fault = "none"
    /\ m_basicMeshes = "ShapeMeshes"
    /\ m_pShaderManager' = "NULL"
    /\ m_basicMeshes' = "NULL"
    /\ lastCall' = Call("~SceneManager", "", TRUE, 0, 0)
    /\ lastWrites' = <<>>
    /\ UNCHANGED <<texVars, m_objectMaterials, uniforms, glVars, outMaterial, fault>>

----------------------------------------------------------------------------
(* Shader parameter facade *)

\* the uniform writes of SetShaderColor, in source order
SetShaderColorWritesNoBlend(currentColor) ==
    << <<"bUseTexture", 0>>, <<"objectColor", currentColor>> >>

SetShaderColorWrites(currentColor) ==
    << <<"bUseTexture", 0>>, <<"objectColor", currentColor>>,
       <<"blendFactor", 0>> >>

\* SetShaderColor(r, g, b, a) with currentColor = <<r, g, b, a>>
SetShaderColor(currentColor) ==
    /\ fault = "none"
    /\ lastCall' = Call("SetShaderColor", "", TRUE, 0, 0)
    /\ IF m_pShaderManager # "NULL"
       THEN ShaderWrites(SetShaderColorWrites(currentColor))
       ELSE /\ lastWrites' = <<>>
            /\ UNCHANGED uniforms
    /\ UNCHANGED <<m_pShaderManager, m_basicMeshes, texVars, m_objectMaterials, glVars,
                   outMaterial, fault>>

\* the uniform writes of SetShaderTexture, in source order
SetShaderTextureWritesNoBlend(textureTag) ==
    << <<"bUseTexture", 1>>,
       <<"objectTexture", FindTextureSlot(textureTag)>>,
       <<"blendTexture", FindTextureSlot(textureTag)>> >>

SetShaderTextureWrites(textureTag) ==
    << <<"bUseTexture", 1>>,
       <<"objectTexture", FindTextureSlot(textureTag)>>,
       <<"blendTexture", FindTextureSlot(textureTag)>>,
       <<"blendFactor", 0>> >>

\* a SetShaderTexture that gives up when the tag is not registered
SetShaderTextureAbortOnMiss(textureTag) ==
    /\ fault = "none"
    /\ lastCall' = Call("SetShaderTexture", textureTag, TRUE, 0, 0)
    /\ IF FindTextureSlot(textureTag) = -1
       THEN /\ fault' = "abort"
            /\ lastWrites' = <<>>
            /\ UNCHANGED uniforms
       ELSE /\ ShaderWrites(SetShaderTextureWrites(textureTag))
            /\ UNCHANGED fault
    /\ UNCHANGED <<m_pShaderManager, m_basicMeshes, texVars, m_objectMaterials, glVars,
                   outMaterial>>

SetShaderTexture(textureTag) ==
    /\ fault = "none"
    /\ lastCall' = Call("SetShaderTexture", textureTag, TRUE, 0, 0)
    /\ IF m_pShaderManager # "NULL"
       THEN ShaderWrites(SetShaderTextureWrites(textureTag))
       ELSE /\ lastWrites' = <<>>
            /\ UNCHANGED uniforms
    /\ UNCHANGED <<m_pShaderManager, m_basicMeshes, texVars, m_objectMaterials, glVars,
                   outMaterial, fault>>

\* SetShaderTextures(textureTag, textureTag2): the body is empty
SetShaderTextures(textureTag, textureTag2) ==
    /\ fault = "none"
    /\ lastCall' = Call("SetShaderTextures", textureTag, TRUE, 0, 0)
    /\ lastWrites' = <<>>
    /\ UNCHANGED <<m_pShaderManager, m_basicMeshes, texVars, m_objectMaterials, uniforms, glVars,
                   outMaterial, fault>>

SetTextureUVScale(uv) ==
    /\ fault = "none"
    /\ lastCall' = Call("SetTextureUVScale", "", TRUE, 0, 0)
    /\ IF m_pShaderManager # "NULL"
       THEN ShaderWrites(<< <<"UVscale", uv>> >>)
       ELSE /\ lastWrites' = <<>>
            /\ UNCHANGED uniforms
    /\ UNCHANGED <<m_pShaderManager, m_basicMeshes, texVars, m_objectMaterials, glVars,
                   outMaterial, fault>>

----------------------------------------------------------------------------
(* Transformation composer *)

Unit == 1000   \* 1.0f in thousandths

\* cos and sin of glm::radians(d) in thousandths, for the whole degrees the
\* scene and the checks use
Cos(d) ==
    CASE d = -45 -> 707
      [] d = 0 -> 1000
      [] d = 10 -> 985
      [] d = 20 -> 940
      [] d = 30 -> 866
      [] d = 36 -> 809
      [] d = 40 -> 766
      [] d = 45 -> 707
      [] d = 50 -> 643
      [] d = 60 -> 500
      [] d = 70 -> 342
      [] d = 72 -> 309
      [] d = 80 -> 174
      [] d = 90 -> 0
      [] d = 100 -> -174
      [] d = 108 -> -309
      [] d = 110 -> -342
      [] d = 120 -> -500
      [] d = 130 -> -643
      [] d = 140 -> -766
      [] d = 144 -> -809
      [] d = 150 -> -866
      [] d = 160 -> -940
      [] d = 170 -> -985
      [] d = 180 -> -1000

Sin(d) ==
    CASE d = -45 -> -707
      [] d = 0 -> 0
      [] d = 10 -> 174
      [] d = 20 -> 342
      [] d = 30 -> 500
      [] d = 36 -> 588
      [] d = 40 -> 643
      [] d = 45 -> 707
      [] d = 50 -> 766
      [] d = 60 -> 866
      [] d = 70 -> 940
      [] d = 72 -> 951
      [] d = 80 -> 985
      [] d = 90 -> 1000
      [] d = 100 -> 985
      [] d = 108 -> 951
      [] d = 110 -> 940
      [] d = 120 -> 866
      [] d = 130 -> 766
      [] d = 140 -> 643
      [] d = 144 -> 588
      [] d = 150 -> 500
      [] d = 160 -> 342
      [] d = 170 -> 174
      [] d = 180 -> 0

\* product of two 4x4 matrices of thousandths
MatMulCell(a, b, i, j) ==
    (a[i][1] * b[1][j] + a[i][2] * b[2][j]
       + a[i][3] * b[3][j] + a[i][4] * b[4][j]) \div Unit

MatMulRow(a, b, i) ==
    <<MatMulCell(a, b, i, 1), MatMulCell(a, b, i, 2),
      MatMulCell(a, b, i, 3), MatMulCell(a, b, i, 4)>>

\* (x and y hold the values of a and b, each worked out once)
MatMul(a, b) ==
    CHOOSE m \in { <<MatMulRow(x, y, 1), MatMulRow(x, y, 2),
                     MatMulRow(x, y, 3), MatMulRow(x, y, 4)>> :
                   x \in {a}, y \in {b} } : TRUE

\* glm::scale(v)
ScaleMatrix(v) ==
    << <<v[1], 0, 0, 0>>, <<0, v[2], 0, 0>>, <<0, 0, v[3], 0>>, <<0, 0, 0, Unit>> >>

\* glm::rotate(glm::radians(d), axis) for the three coordinate axes
RotationX(d) ==
    << <<Unit, 0, 0, 0>>, <<0, Cos(d), -Sin(d), 0>>,
       <<0, Sin(d), Cos(d), 0>>, <<0, 0, 0, Unit>> >>

RotationY(d) ==
    << <<Cos(d), 0, Sin(d), 0>>, <<0, Unit, 0, 0>>,
       <<-Sin(d), 0, Cos(d), 0>>, <<0, 0, 0, Unit>> >>

RotationZ(d) ==
    << <<Cos(d), -Sin(d), 0, 0>>, <<Sin(d), Cos(d), 0, 0>>,
       <<0, 0, Unit, 0>>, <<0, 0, 0, Unit>> >>

\* glm::translate(v)
TranslationMatrix(v) ==
    << <<Unit, 0, 0, v[1]>>, <<0, Unit, 0, v[2]>>,
       <<0, 0, Unit, v[3]>>, <<0, 0, 0, Unit>> >>

\* modelView = translation * rotationZ * rotationY * rotationX * scale
ModelViewScaleLast(scaleXYZ, X, Y, Z, positionXYZ) ==
    MatMul(MatMul(MatMul(MatMul(ScaleMatrix(scaleXYZ), RotationX(X)),
                         RotationY(Y)),
                  RotationZ(Z)),
           TranslationMatrix(positionXYZ))

ModelView(scaleXYZ, X, Y, Z, positionXYZ) ==
    MatMul(MatMul(MatMul(MatMul(TranslationMatrix(positionXYZ), RotationZ(Z)),
                         RotationY(Y)),
                  RotationX(X)),
           ScaleMatrix(scaleXYZ))

SetTransformations(scaleXYZ, X, Y, Z, positionXYZ) ==
    /\ fault = "none"
    /\ lastCall' = Call("SetTransformations", "", TRUE, 0, 0)
    /\ IF m_pShaderManager # "NULL"
       THEN ShaderWrites(<< <<"model", ModelView(scaleXYZ, X, Y, Z, positionXYZ)>> >>)
       ELSE /\ lastWrites' = <<>>
            /\ UNCHANGED uniforms
    /\ UNCHANGED <<m_pShaderManager, m_basicMeshes, texVars, m_objectMaterials,
                   glVars, outMaterial, fault>>

\* arguments the composer is tried with: whole scales, right angles
TransformScales    == {<<1000, 1000, 1000>>, <<2000, 3000, 500>>}
TransformDegrees   == {0, 90, 180}
TransformPositions == {<<1000, -2000, 3000>>}

----------------------------------------------------------------------------
(* RenderScene *)

MeshDraws == {"DrawBoxMesh", "DrawCylinderMesh", "DrawSphereMesh",
              "DrawPlaneMesh", "DrawTorusMesh"}

\* one call statement of RenderScene
TransformCall(s, x, y, z, p) ==
    [op |-> "SetTransformations", tag |-> "", args |-> <<s, x, y, z, p>>]
TextureCall(tag)  == [op |-> "SetShaderTexture",  tag |-> tag, args |-> <<>>]
MaterialCall(tag) == [op |-> "SetShaderMaterial", tag |-> tag, args |-> <<>>]
ColorCall(c)      == [op |-> "SetShaderColor",    tag |-> "",  args |-> c]
DrawCall(mesh)    == [op |-> mesh,                tag |-> "",  args |-> <<>>]

\* the same calls without the SetTransformations of line 624
RenderCallsStandUntransformed ==
    << TextureCall("stand"),
       MaterialCall("wood"),
       DrawCall("DrawBoxMesh") >>

\* RenderScene, source lines 624-635
RenderCallsStand ==
    << TransformCall(<<20000, 1000, 15000>>, 0, 0, 0, <<0, 0, 0>>),
       TextureCall("stand"),
       MaterialCall("wood"),
       DrawCall("DrawBoxMesh") >>

\* RenderScene, source lines 655-1201
RenderCallsPart1 ==
    << TransformCall(<<20000, 1000, 25000>>, 90, 0, 0, <<0, 0, -10000>>),
       TextureCall("wall"),
       DrawCall("DrawPlaneMesh"),
       TextureCall("blackPlastic"),
       MaterialCall("plastic"),
       TransformCall(<<250, 4000, 1000>>, 0, 0, 0, <<6000, 11500, -2500>>),
       DrawCall("DrawBoxMesh"),
       TransformCall(<<250, 4000, 1000>>, 0, 0, 0, <<2000, 11500, -2500>>),
       DrawCall("DrawBoxMesh"),
       TransformCall(<<250, 4000, 1000>>, 0, 0, 90, <<4000, 9500, -2500>>),
       DrawCall("DrawBoxMesh"),
       TransformCall(<<250, 4000, 1000>>, 0, 0, 90, <<4000, 13500, -2500>>),
       DrawCall("DrawBoxMesh"),
       TransformCall(<<650, 1000, 650>>, 90, 0, 0, <<4000, 11500, -3000>>),
       MaterialCall("middle"),
       DrawCall("DrawCylinderMesh"),
       MaterialCall("plastic"),
       TransformCall(<<130, 1000, 130>>, 90, 0, 0, <<2000, 13500, -3000>>),
       DrawCall("DrawCylinderMesh"),
       TransformCall(<<130, 1000, 130>>, 90, 0, 0, <<2000, 9500, -3000>>),
       DrawCall("DrawCylinderMesh"),
       TransformCall(<<130, 1000, 130>>, 90, 0, 0, <<6000, 13500, -3000>>),
       DrawCall("DrawCylinderMesh"),
       TransformCall(<<130, 1000, 130>>, 90, 0, 0, <<6000, 9500, -3000>>),
       DrawCall("DrawCylinderMesh"),
       TransformCall(<<4000, 100, 250>>, 0, 0, 0, <<4000, 11500, -2150>>),
       DrawCall("DrawBoxMesh"),
       TransformCall(<<5000, 100, 250>>, 0, 0, 36, <<4000, 11500, -2150>>),
       DrawCall("DrawBoxMesh"),
       TransformCall(<<4000, 100, 250>>, 0, 0, 72, <<4000, 11500, -2150>>),
       DrawCall("DrawBoxMesh"),
       TransformCall(<<4000, 100, 250>>, 0, 0, 108, <<4000, 11500, -2150>>),
       DrawCall("DrawBoxMesh"),
       TransformCall(<<5000, 100, 250>>, 0, 0, 144, <<4000, 11500, -2150>>),
       DrawCall("DrawBoxMesh"),
       TextureCall("blade"),
       TransformCall(<<450, 750, 100>>, 0, 0, 0, <<4000, 10500, -2500>>),
       DrawCall("DrawSphereMesh"),
       TransformCall(<<450, 750, 100>>, 0, 0, -45, <<4750, 12250, -2500>>),
       DrawCall("DrawSphereMesh"),
       TransformCall(<<450, 750, 100>>, 0, 0, 45, <<3250, 12250, -2500>>),
       DrawCall("DrawSphereMesh"),
       TextureCall("blackPlastic"),
       MaterialCall("plastic"),
       TransformCall(<<250, 4000, 1000>>, 0, 0, 0, <<6000, 7250, -2500>>),
       DrawCall("DrawBoxMesh"),
       TransformCall(<<250, 4000, 1000>>, 0, 0, 0, <<2000, 7250, -2500>>),
       DrawCall("DrawBoxMesh"),
       TransformCall(<<250, 4000, 1000>>, 0, 0, 90, <<4000, 5250, -2500>>),
       DrawCall("DrawBoxMesh") >>

\* RenderScene, source lines 1207-1796
RenderCallsPart2 ==
    << TransformCall(<<250, 4000, 1000>>, 0, 0, 90, <<4000, 9250, -2500>>),
       DrawCall("DrawBoxMesh"),
       TransformCall(<<650, 1000, 650>>, 90, 0, 0, <<4000, 7250, -3000>>),
       DrawCall("DrawCylinderMesh"),
       TransformCall(<<130, 1000, 130>>, 90, 0, 0, <<2000, 9250, -3000>>),
       DrawCall("DrawCylinderMesh"),
       TransformCall(<<130, 1000, 130>>, 90, 0, 0, <<2000, 5250, -3000>>),
       DrawCall("DrawCylinderMesh"),
       TransformCall(<<130, 1000, 130>>, 90, 0, 0, <<6000, 9250, -3000>>),
       DrawCall("DrawCylinderMesh"),
       TransformCall(<<130, 1000, 130>>, 90, 0, 0, <<6000, 5250, -3000>>),
       DrawCall("DrawCylinderMesh"),
       TransformCall(<<4000, 100, 250>>, 0, 0, 0, <<4000, 7250, -2150>>),
       DrawCall("DrawBoxMesh"),
       TransformCall(<<5000, 100, 250>>, 0, 0, 36, <<4000, 7250, -2150>>),
       DrawCall("DrawBoxMesh"),
       TransformCall(<<4000, 100, 250>>, 0, 0, 72, <<4000, 7250, -2150>>),
       DrawCall("DrawBoxMesh"),
       TransformCall(<<4000, 100, 250>>, 0, 0, 108, <<4000, 7250, -2150>>),
       DrawCall("DrawBoxMesh"),
       TransformCall(<<5000, 100, 250>>, 0, 0, 144, <<4000, 7250, -2150>>),
       DrawCall("DrawBoxMesh"),
       TextureCall("blade"),
       TransformCall(<<450, 750, 100>>, 0, 0, 0, <<4000, 6250, -2500>>),
       DrawCall("DrawSphereMesh"),
       TransformCall(<<450, 750, 100>>, 0, 0, -45, <<4750, 8000, -2500>>),
       DrawCall("DrawSphereMesh"),
       TransformCall(<<450, 750, 100>>, 0, 0, 45, <<3250, 8000, -2500>>),
       DrawCall("DrawSphereMesh"),
       TextureCall("blackPlastic"),
       MaterialCall("plastic"),
       TransformCall(<<250, 4000, 1000>>, 0, 0, 0, <<6000, 3000, -2500>>),
       DrawCall("DrawBoxMesh"),
       TransformCall(<<250, 4000, 1000>>, 0, 0, 0, <<2000, 3000, -2500>>),
       DrawCall("DrawBoxMesh"),
       TransformCall(<<250, 4000, 1000>>, 0, 0, 90, <<4000, 1000, -2500>>),
       DrawCall("DrawBoxMesh"),
       TransformCall(<<250, 4000, 1000>>, 0, 0, 90, <<4000, 5000, -2500>>),
       DrawCall("DrawBoxMesh"),
       TransformCall(<<650, 1000, 650>>, 90, 0, 0, <<4000, 3000, -3000>>),
       DrawCall("DrawCylinderMesh"),
       TransformCall(<<130, 1000, 130>>, 90, 0, 0, <<2000, 5000, -3000>>),
       DrawCall("DrawCylinderMesh"),
       TransformCall(<<130, 1000, 130>>, 90, 0, 0, <<2000, 1000, -3000>>),
       DrawCall("DrawCylinderMesh"),
       TransformCall(<<130, 1000, 130>>, 90, 0, 0, <<6000, 5000, -3000>>),
       DrawCall("DrawCylinderMesh"),
       TransformCall(<<130, 1000, 130>>, 90, 0, 0, <<6000, 1000, -3000>>),
       DrawCall("DrawCylinderMesh"),
       TransformCall(<<4000, 100, 250>>, 0, 0, 0, <<4000, 3000, -2150>>),
       DrawCall("DrawBoxMesh") >>

\* RenderScene, source lines 1807-2364
RenderCallsPart3 ==
    << TransformCall(<<5000, 100, 250>>, 0, 0, 36, <<4000, 3000, -2150>>),
       DrawCall("DrawBoxMesh"),
       TransformCall(<<4000, 100, 250>>, 0, 0, 72, <<4000, 3000, -2150>>),
       DrawCall("DrawBoxMesh"),
       TransformCall(<<4000, 100, 250>>, 0, 0, 108, <<4000, 3000, -2150>>),
       DrawCall("DrawBoxMesh"),
       TransformCall(<<5000, 100, 250>>, 0, 0, 144, <<4000, 3000, -2150>>),
       DrawCall("DrawBoxMesh"),
       TextureCall("blade"),
       TransformCall(<<450, 750, 100>>, 0, 0, 0, <<4000, 2000, -2500>>),
       DrawCall("DrawSphereMesh"),
       TransformCall(<<450, 750, 100>>, 0, 0, -45, <<4750, 3750, -2500>>),
       DrawCall("DrawSphereMesh"),
       TransformCall(<<450, 750, 100>>, 0, 0, 45, <<3250, 3750, -2500>>),
       DrawCall("DrawSphereMesh"),
       TextureCall("blackPlastic"),
       MaterialCall("plastic"),
       TransformCall(<<250, 4000, 1000>>, 0, 90, 0, <<-6500, 11500, -1500>>),
       DrawCall("DrawBoxMesh"),
       TransformCall(<<250, 4000, 1000>>, 0, 90, 0, <<-6500, 11500, 2500>>),
       DrawCall("DrawBoxMesh"),
       TransformCall(<<250, 4000, 1000>>, 90, 0, 90, <<-6500, 9500, 500>>),
       DrawCall("DrawBoxMesh"),
       TransformCall(<<250, 4000, 1000>>, 90, 0, 90, <<-6500, 13500, 500>>),
       DrawCall("DrawBoxMesh"),
       TransformCall(<<650, 1000, 650>>, 90, 90, 0, <<-7000, 11500, 500>>),
       DrawCall("DrawCylinderMesh"),
       TransformCall(<<130, 1000, 130>>, 90, 90, 0, <<-7000, 13500, 2500>>),
       DrawCall("DrawCylinderMesh"),
       TransformCall(<<130, 1000, 130>>, 90, 90, 0, <<-7000, 9500, 2500>>),
       DrawCall("DrawCylinderMesh"),
       TransformCall(<<130, 1000, 130>>, 90, 90, 0, <<-7000, 13500, -1500>>),
       DrawCall("DrawCylinderMesh"),
       TransformCall(<<130, 1000, 130>>, 90, 90, 0, <<-7000, 9500, -1500>>),
       DrawCall("DrawCylinderMesh"),
       TransformCall(<<250, 100, 4000>>, 0, 0, 0, <<-6150, 11500, 500>>),
       DrawCall("DrawBoxMesh"),
       TransformCall(<<250, 100, 5000>>, 36, 0, 0, <<-6150, 11500, 500>>),
       DrawCall("DrawBoxMesh"),
       TransformCall(<<250, 100, 4000>>, 72, 0, 0, <<-6150, 11500, 500>>),
       DrawCall("DrawBoxMesh"),
       TransformCall(<<250, 100, 4000>>, 108, 0, 0, <<-6150, 11500, 500>>),
       DrawCall("DrawBoxMesh"),
       TransformCall(<<250, 100, 5000>>, 144, 0, 0, <<-6150, 11500, 500>>),
       DrawCall("DrawBoxMesh"),
       TextureCall("blade"),
       TransformCall(<<100, 750, 450>>, 0, 0, 0, <<-6500, 10500, 500>>),
       DrawCall("DrawSphereMesh"),
       TransformCall(<<100, 750, 450>>, -45, 0, 0, <<-6500, 12250, -250>>),
       DrawCall("DrawSphereMesh") >>

\* RenderScene, source lines 2377-2956
RenderCallsPart4 ==
    << TransformCall(<<100, 750, 450>>, 45, 0, 0, <<-6500, 12250, 1250>>),
       DrawCall("DrawSphereMesh"),
       TextureCall("blackPlastic"),
       MaterialCall("plastic"),
       TransformCall(<<250, 4000, 1000>>, 90, 90, 0, <<-3500, 13500, -1500>>),
       DrawCall("DrawBoxMesh"),
       TransformCall(<<250, 4000, 1000>>, 90, 90, 0, <<-3500, 13500, 2500>>),
       DrawCall("DrawBoxMesh"),
       TransformCall(<<250, 4000, 1000>>, 90, 0, 0, <<-1500, 13500, 500>>),
       DrawCall("DrawBoxMesh"),
       TransformCall(<<250, 4000, 1000>>, 90, 0, 0, <<-5500, 13500, 500>>),
       DrawCall("DrawBoxMesh"),
       TransformCall(<<650, 1000, 650>>, 0, 0, 0, <<-3500, 13000, 500>>),
       DrawCall("DrawCylinderMesh"),
       TransformCall(<<130, 1000, 130>>, 0, 0, 0, <<-5500, 13000, 2500>>),
       DrawCall("DrawCylinderMesh"),
       TransformCall(<<130, 1000, 130>>, 0, 0, 0, <<-1500, 13000, 2500>>),
       DrawCall("DrawCylinderMesh"),
       TransformCall(<<130, 1000, 130>>, 0, 0, 0, <<-5500, 13000, -1500>>),
       DrawCall("DrawCylinderMesh"),
       TransformCall(<<130, 1000, 130>>, 0, 0, 0, <<-1500, 13000, -1500>>),
       DrawCall("DrawCylinderMesh"),
       TransformCall(<<100, 250, 4000>>, 0, 0, 0, <<-3500, 13150, 500>>),
       DrawCall("DrawBoxMesh"),
       TransformCall(<<100, 250, 5000>>, 0, 36, 0, <<-3500, 13150, 500>>),
       DrawCall("DrawBoxMesh"),
       TransformCall(<<100, 250, 4000>>, 0, 72, 0, <<-3500, 13150, 500>>),
       DrawCall("DrawBoxMesh"),
       TransformCall(<<100, 250, 4000>>, 0, 108, 0, <<-3500, 13150, 500>>),
       DrawCall("DrawBoxMesh"),
       TransformCall(<<100, 250, 5000>>, 0, 144, 0, <<-3500, 13150, 500>>),
       DrawCall("DrawBoxMesh"),
       TextureCall("blade"),
       TransformCall(<<750, 100, 450>>, 0, 0, 0, <<-4500, 13500, 500>>),
       DrawCall("DrawSphereMesh"),
       TransformCall(<<750, 100, 450>>, 0, -45, 0, <<-3000, 13500, 1250>>),
       DrawCall("DrawSphereMesh"),
       TransformCall(<<750, 100, 450>>, 0, 45, 0, <<-3000, 13500, -250>>),
       DrawCall("DrawSphereMesh"),
       TextureCall("blackPlastic"),
       MaterialCall("plastic"),
       TransformCall(<<250, 4000, 1000>>, 90, 90, 0, <<1000, 13500, 2500>>),
       DrawCall("DrawBoxMesh"),
       TransformCall(<<250, 4000, 1000>>, 90, 90, 0, <<1000, 13500, -1500>>),
       DrawCall("DrawBoxMesh"),
       TransformCall(<<250, 4000, 1000>>, 90, 0, 0, <<3000, 13500, 500>>),
       DrawCall("DrawBoxMesh"),
       TransformCall(<<250, 4000, 1000>>, 90, 0, 0, <<-1000, 13500, 500>>),
       DrawCall("DrawBoxMesh"),
       TransformCall(<<650, 1000, 650>>, 0, 0, 0, <<1000, 13000, 500>>),
       DrawCall("DrawCylinderMesh") >>

\* RenderScene, source lines 2989-3578
RenderCallsPart5 ==
    << TransformCall(<<130, 1000, 130>>, 0, 0, 0, <<-1000, 13000, 2500>>),
       DrawCall("DrawCylinderMesh"),
       TransformCall(<<130, 1000, 130>>, 0, 0, 0, <<3000, 13000, 2500>>),
       DrawCall("DrawCylinderMesh"),
       TransformCall(<<130, 1000, 130>>, 0, 0, 0, <<-1000, 13000, -1500>>),
       DrawCall("DrawCylinderMesh"),
       TransformCall(<<130, 1000, 130>>, 0, 0, 0, <<3000, 13000, -1500>>),
       DrawCall("DrawCylinderMesh"),
       TransformCall(<<100, 250, 4000>>, 0, 0, 0, <<1000, 13150, 500>>),
       DrawCall("DrawBoxMesh"),
       TransformCall(<<100, 250, 5000>>, 0, 36, 0, <<1000, 13150, 500>>),
       DrawCall("DrawBoxMesh"),
       TransformCall(<<100, 250, 4000>>, 0, 72, 0, <<1000, 13150, 500>>),
       DrawCall("DrawBoxMesh"),
       TransformCall(<<100, 250, 4000>>, 0, 108, 0, <<1000, 13150, 500>>),
       DrawCall("DrawBoxMesh"),
       TransformCall(<<100, 250, 5000>>, 0, 144, 0, <<1000, 13150, 500>>),
       DrawCall("DrawBoxMesh"),
       TextureCall("blade"),
       TransformCall(<<750, 100, 450>>, 0, 0, 0, <<0, 13500, 500>>),
       DrawCall("DrawSphereMesh"),
       TransformCall(<<750, 100, 450>>, 0, -45, 0, <<1500, 13500, 1250>>),
       DrawCall("DrawSphereMesh"),
       TransformCall(<<750, 100, 450>>, 0, 45, 0, <<1500, 13500, -250>>),
       DrawCall("DrawSphereMesh"),
       TextureCall("blackPlastic"),
       TransformCall(<<14000, 13000, 100>>, 0, 0, 0, <<0, 7500, -3000>>),
       DrawCall("DrawBoxMesh"),
       TransformCall(<<14000, 100, 6000>>, 0, 0, 0, <<0, 14000, 0>>),
       DrawCall("DrawBoxMesh"),
       TransformCall(<<100, 13000, 6000>>, 0, 0, 0, <<-7000, 7500, 0>>),
       DrawCall("DrawBoxMesh"),
       TransformCall(<<14000, 100, 6000>>, 0, 0, 0, <<0, 1000, 0>>),
       DrawCall("DrawBoxMesh"),
       TransformCall(<<1500, 500, 100>>, 0, 0, 0, <<-6000, 750, 2900>>),
       DrawCall("DrawBoxMesh"),
       TransformCall(<<1500, 500, 100>>, 0, 0, 0, <<6000, 750, 2900>>),
       DrawCall("DrawBoxMesh"),
       TransformCall(<<1500, 500, 100>>, 0, 0, 0, <<6000, 750, -2900>>),
       DrawCall("DrawBoxMesh"),
       TransformCall(<<1500, 500, 100>>, 0, 0, 0, <<-6000, 750, -2900>>),
       DrawCall("DrawBoxMesh"),
       TransformCall(<<8500, 3000, 5000>>, 0, 0, 0, <<-2700, 2500, -500>>),
       DrawCall("DrawBoxMesh"),
       TextureCall("chip"),
       MaterialCall("mother"),
       TransformCall(<<8000, 9000, 100>>, 0, 0, 0, <<-2500, 9000, -2800>>),
       DrawCall("DrawBoxMesh"),
       TextureCall("gpu"),
       MaterialCall("plastic"),
       TransformCall(<<8500, 1500, 3000>>, 0, 0, 0, <<-2750, 6000, -1000>>),
       DrawCall("DrawBoxMesh") >>

\* RenderScene, source lines 3587-3983
RenderCallsPart6 ==
    << TextureCall("blackPlastic"),
       MaterialCall("plastic"),
       TransformCall(<<300, 4000, 1500>>, 0, 0, 0, <<-500, 9000, -2000>>),
       DrawCall("DrawBoxMesh"),
       TransformCall(<<300, 4000, 1500>>, 0, 0, 0, <<500, 9000, -2000>>),
       DrawCall("DrawBoxMesh"),
       TransformCall(<<300, 4000, 300>>, 0, 0, 0, <<-500, 9000, -1100>>),
       ColorCall(<<100, 100, 100, 100>>),
       DrawCall("DrawBoxMesh"),
       TransformCall(<<300, 4000, 300>>, 0, 0, 0, <<500, 9000, -1100>>),
       ColorCall(<<110, 110, 110, 100>>),
       DrawCall("DrawBoxMesh"),
       TransformCall(<<850, 2000, 850>>, 90, 0, 0, <<-3000, 9500, -2750>>),
       ColorCall(<<1, 1, 1, 100>>),
       DrawCall("DrawCylinderMesh"),
       TransformCall(<<400, 2000, 400>>, 90, 0, 0, <<-3000, 9500, -2550>>),
       TextureCall("blackPlastic"),
       MaterialCall("plastic"),
       DrawCall("DrawCylinderMesh"),
       TransformCall(<<1000, 1000, 4000>>, 0, 0, 0, <<-3000, 9500, -1750>>),
       TextureCall("blackPlastic"),
       MaterialCall("plastic"),
       DrawCall("DrawTorusMesh"),
       TransformCall(<<1750, 20, 200>>, 0, 0, 0, <<-3000, 9500, -750>>),
       TextureCall("blade"),
       DrawCall("DrawBoxMesh"),
       TransformCall(<<1750, 20, 200>>, 0, 0, 10, <<-3000, 9500, -750>>),
       DrawCall("DrawBoxMesh"),
       TransformCall(<<1750, 20, 200>>, 0, 0, 20, <<-3000, 9500, -750>>),
       DrawCall("DrawBoxMesh"),
       TransformCall(<<1750, 20, 200>>, 0, 0, 30, <<-3000, 9500, -750>>),
       DrawCall("DrawBoxMesh"),
       TransformCall(<<1750, 20, 200>>, 0, 0, 40, <<-3000, 9500, -750>>),
       DrawCall("DrawBoxMesh"),
       TransformCall(<<1750, 20, 200>>, 0, 0, 50, <<-3000, 9500, -750>>),
       DrawCall("DrawBoxMesh"),
       TransformCall(<<1750, 20, 200>>, 0, 0, 60, <<-3000, 9500, -750>>),
       DrawCall("DrawBoxMesh"),
       TransformCall(<<1750, 20, 200>>, 0, 0, 70, <<-3000, 9500, -750>>),
       DrawCall("DrawBoxMesh"),
       TransformCall(<<1750, 20, 200>>, 0, 0, 80, <<-3000, 9500, -750>>),
       DrawCall("DrawBoxMesh"),
       TransformCall(<<1750, 20, 200>>, 0, 0, 90, <<-3000, 9500, -750>>),
       DrawCall("DrawBoxMesh"),
       TransformCall(<<1750, 20, 200>>, 0, 0, 100, <<-3000, 9500, -750>>),
       DrawCall("DrawBoxMesh"),
       TransformCall(<<1750, 20, 200>>, 0, 0, 110, <<-3000, 9500, -750>>),
       DrawCall("DrawBoxMesh"),
       TransformCall(<<1750, 20, 200>>, 0, 0, 120, <<-3000, 9500, -750>>),
       DrawCall("DrawBoxMesh") >>

\* RenderScene, source lines 3994-4376
RenderCallsPart7 ==
    << TransformCall(<<1750, 20, 200>>, 0, 0, 130, <<-3000, 9500, -750>>),
       DrawCall("DrawBoxMesh"),
       TransformCall(<<1750, 20, 200>>, 0, 0, 140, <<-3000, 9500, -750>>),
       DrawCall("DrawBoxMesh"),
       TransformCall(<<1750, 20, 200>>, 0, 0, 150, <<-3000, 9500, -750>>),
       DrawCall("DrawBoxMesh"),
       TransformCall(<<1750, 20, 200>>, 0, 0, 160, <<-3000, 9500, -750>>),
       DrawCall("DrawBoxMesh"),
       TransformCall(<<1750, 20, 200>>, 0, 0, 170, <<-3000, 9500, -750>>),
       DrawCall("DrawBoxMesh"),
       TransformCall(<<500, 1000, 500>>, 0, 0, 0, <<-3000, 7500, -2000>>),
       ColorCall(<<1, 1, 1, 100>>),
       DrawCall("DrawCylinderMesh"),
       TransformCall(<<500, 1000, 500>>, 90, 40, 0, <<-3000, 7500, -2000>>),
       DrawCall("DrawCylinderMesh"),
       TransformCall(<<500, 500, 500>>, 90, 40, 0, <<-3000, 7500, -2000>>),
       DrawCall("DrawSphereMesh"),
       TransformCall(<<500, 1750, 500>>, 90, 40, 0, <<-2400, 7500, -1300>>),
       DrawCall("DrawCylinderMesh"),
       TransformCall(<<500, 2900, 500>>, 90, 90, 0, <<-1400, 7500, 0>>),
       DrawCall("DrawCylinderMesh"),
       TransformCall(<<500, 500, 500>>, 0, 0, 0, <<-1330, 7500, 0>>),
       DrawCall("DrawSphereMesh"),
       TransformCall(<<500, 1000, 500>>, 0, 0, 0, <<4000, 13000, 0>>),
       DrawCall("DrawCylinderMesh"),
       TransformCall(<<500, 3000, 500>>, 0, 0, 0, <<4000, 10000, 0>>),
       DrawCall("DrawCylinderMesh"),
       TransformCall(<<500, 1000, 500>>, 45, 90, 0, <<3200, 9250, 0>>),
       DrawCall("DrawCylinderMesh"),
       TransformCall(<<500, 500, 500>>, 0, 0, 0, <<4000, 10000, 0>>),
       DrawCall("DrawSphereMesh"),
       TransformCall(<<500, 2750, 500>>, 45, 90, 0, <<1450, 7500, 0>>),
       DrawCall("DrawCylinderMesh"),
       TransformCall(<<500, 500, 500>>, 0, 0, 0, <<1450, 7500, 0>>),
       DrawCall("DrawSphereMesh") >>

\* the front glass panel drawn without its SetTransformations call
RenderCallsGlassPanel1Untransformed ==
    << ColorCall(<<10, 10, 10, 20>>),
       MaterialCall("glass"),
       DrawCall("DrawBoxMesh") >>

\* RenderScene, source lines 4399-4409: the glass panel at the front
RenderCallsGlassPanel1 ==
    << TransformCall(<<14000, 13000, 100>>, 0, 0, 0, <<0, 7500, 3000>>),
       ColorCall(<<10, 10, 10, 20>>),
       MaterialCall("glass"),
       DrawCall("DrawBoxMesh") >>

\* the side glass panel with an opaque flat colour
RenderCallsGlassPanel2Opaque ==
    << TransformCall(<<100, 13000, 6000>>, 0, 0, 0, <<7000, 7500, 0>>),
       ColorCall(<<10, 10, 10, 100>>),
       MaterialCall("glass"),
       DrawCall("DrawBoxMesh") >>

\* RenderScene, source lines 4426-4436: the glass panel at the side
RenderCallsGlassPanel2 ==
    << TransformCall(<<100, 13000, 6000>>, 0, 0, 0, <<7000, 7500, 0>>),
       ColorCall(<<10, 10, 10, 20>>),
       MaterialCall("glass"),
       DrawCall("DrawBoxMesh") >>

\* the calls of RenderScene in source order; the body has no branch or loop
RenderCalls ==
    RenderCallsStand \o RenderCallsPart1 \o RenderCallsPart2 \o RenderCallsPart3 \o
    RenderCallsPart4 \o RenderCallsPart5 \o RenderCallsPart6 \o RenderCallsPart7 \o
    RenderCallsGlassPanel1 \o RenderCallsGlassPanel2

\* m_basicMeshes->Draw...Mesh()
DrawMesh(mesh) ==
    /\ fault = "none"
    /\ lastCall' = Call(mesh, "", TRUE, 0, 0)
    /\ lastWrites' = <<>>
    /\ fault' = IF m_basicMeshes = "NULL" THEN "null_deref" ELSE fault
    /\ UNCHANGED <<m_pShaderManager, m_basicMeshes, texVars, m_objectMaterials,
                   uniforms, glVars, outMaterial>>

\* entry into RenderScene: the locals are declared, nothing is called yet
RenderSceneBegin ==
    /\ fault = "none"
    /\ pc = 0
    /\ pc' = 1
    /\ sinceDraw' = {}
    /\ sinceStart' = {}
    /\ drawLog' = <<>>
    /\ written' = {}
    /\ UNCHANGED <<cmdLog, writeLog, prepPc, setupLog, loadedMeshes>>
    /\ lastCall' = Call("RenderScene", "", TRUE, 0, 0)
    /\ lastWrites' = <<>>
    /\ UNCHANGED <<m_pShaderManager, m_basicMeshes, texVars, m_objectMaterials,
                   uniforms, glVars, outMaterial, fault>>

\* the next call statement of RenderScene; a faulting call ends the program
RenderStep ==
    /\ pc \in 1..Len(RenderCalls)
    /\ LET c == RenderCalls[pc] IN
         /\ \/ /\ c.op = "SetTransformations"
               /\ SetTransformations(c.args[1], c.args[2], c.args[3], c.args[4],
                                     c.args[5])
            \/ /\ c.op = "SetShaderTexture"
               /\ SetShaderTexture(c.tag)
            \/ /\ c.op = "SetShaderMaterial"
               /\ SetShaderMaterial(c.tag)
            \/ /\ c.op = "SetShaderColor"
               /\ SetShaderColor(c.args)
            \/ /\ c.op \in MeshDraws
               /\ DrawMesh(c.op)
         /\ pc' = IF fault' = "none" THEN pc + 1 ELSE pc
         /\ sinceStart' = sinceStart \cup {c.op}
         /\ sinceDraw' = IF c.op \in MeshDraws THEN {} ELSE sinceDraw \cup {c.op}
         /\ drawLog' = IF c.op \in MeshDraws /\ fault' = "none"
                       THEN Append(drawLog, c.op)
                       ELSE drawLog
         /\ written' = written \cup {lastWrites'[i][1] : i \in 1..Len(lastWrites')}
         /\ UNCHANGED <<cmdLog, writeLog, prepPc, setupLog, loadedMeshes>>

\* RenderScene returns after its last statement
RenderSceneReturn ==
    /\ fault = "none"
    /\ pc = Len(RenderCalls) + 1
    /\ pc' = 0
    /\ lastCall' = Call("RenderSceneReturn", "", TRUE, 0, 0)
    /\ lastWrites' = <<>>
    /\ UNCHANGED <<m_pShaderManager, m_basicMeshes, texVars, m_objectMaterials,
                   uniforms, glVars, outMaterial, fault, sinceDraw, sinceStart,
                   drawLog, cmdLog, writeLog, written, prepPc, setupLog,
                   loadedMeshes>>

\* what the registries are filled with before the first frame
RenderImages == {NoImage, [decoded |-> TRUE, channels |-> 3]}
RenderTags   == {"stand", "blade"}

----------------------------------------------------------------------------
(* Scene setup: lights, PrepareScene *)

\* the name of a field of the shader's pointLights array
LightUniform(i, field) == "pointLights[" \o ToString(i) \o "]." \o field

\* the eight writes that configure light i, in source order; vectors and
\* attenuation factors in thousandths
LightWritesShifted(i, position, ambient, diffuse, specular, constant, linear, quadratic) ==
    << <<LightUniform(i + 2, "position"),  position>>,
       <<LightUniform(i + 2, "ambient"),   ambient>>,
       <<LightUniform(i + 2, "diffuse"),   diffuse>>,
       <<LightUniform(i + 2, "specular"),  specular>>,
       <<LightUniform(i + 2, "constant"),  constant>>,
       <<LightUniform(i + 2, "linear"),    linear>>,
       <<LightUniform(i + 2, "quadratic"), quadratic>>,
       <<LightUniform(i + 2, "bActive"),   1>> >>

LightWrites(i, position, ambient, diffuse, specular, constant, linear, quadratic) ==
    << <<LightUniform(i, "position"),  position>>,
       <<LightUniform(i, "ambient"),   ambient>>,
       <<LightUniform(i, "diffuse"),   diffuse>>,
       <<LightUniform(i, "specular"),  specular>>,
       <<LightUniform(i, "constant"),  constant>>,
       <<LightUniform(i, "linear"),    linear>>,
       <<LightUniform(i, "quadratic"), quadratic>>,
       <<LightUniform(i, "bActive"),   1>> >>

\* the uniform writes of SetupSceneLights, in source order
SetupSceneLightsWrites ==
    << <<"bUseLighting", 1>> >>
    \o LightWrites(0, <<-4000, 8000, 5000>>, <<500, 500, 500>>, <<300, 300, 300>>,
                   <<100, 100, 100>>, 1000, 90, 32)
    \o LightWrites(1, <<4000, 11500, -3000>>, <<10, 10, 10>>, <<400, 400, 400>>,
                   <<0, 0, 0>>, 1000, 90, 32)
    \o LightWrites(2, <<4000, 7250, -3000>>, <<10, 10, 10>>, <<400, 400, 400>>,
                   <<0, 0, 0>>, 1000, 90, 32)
    \o LightWrites(3, <<4000, 3000, -3000>>, <<10, 10, 10>>, <<400, 400, 400>>,
                   <<0, 0, 0>>, 1000, 90, 32)
    \o LightWrites(4, <<-7000, 11500, 500>>, <<10, 10, 10>>, <<400, 400, 400>>,
                   <<0, 0, 0>>, 1000, 90, 32)
    \o LightWrites(5, <<-3500, 13000, 500>>, <<10, 10, 10>>, <<400, 400, 400>>,
                   <<0, 0, 0>>, 1000, 90, 32)
    \o LightWrites(6, <<1000, 13000, 500>>, <<10, 10, 10>>, <<400, 400, 400>>,
                   <<0, 0, 0>>, 1000, 90, 32)

\* SetupSceneLights(): every write goes through m_pShaderManager, which the
\* method does not compare with NULL
SetupSceneLights ==
    /\ fault = "none"
    /\ lastCall' = Call("SetupSceneLights", "", TRUE, 0, 0)
    /\ IF m_pShaderManager = "NULL"
       THEN /\ fault' = "null_deref"
            /\ lastWrites' = <<>>
            /\ UNCHANGED uniforms
       ELSE /\ ShaderWrites(SetupSceneLightsWrites)
            /\ UNCHANGED fault
    /\ UNCHANGED <<m_pShaderManager, m_basicMeshes, texVars, m_objectMaterials,
                   glVars, outMaterial>>

MeshLoads == {"LoadPlaneMesh", "LoadBoxMesh", "LoadCylinderMesh", "LoadSphereMesh",
              "LoadTorusMesh", "LoadExtraTorusMesh1", "LoadExtraTorusMesh2"}

\* m_basicMeshes->Load...Mesh()
LoadMesh(mesh) ==
    /\ fault = "none"
    /\ lastCall' = Call(mesh, "", TRUE, 0, 0)
    /\ lastWrites' = <<>>
    /\ fault' = IF m_basicMeshes = "NULL" THEN "null_deref" ELSE fault
    /\ UNCHANGED <<m_pShaderManager, m_basicMeshes, texVars, m_objectMaterials,
                   uniforms, glVars, outMaterial>>

\* one call statement of PrepareScene or LoadSceneTextures
SetupCall(op, tag) == [op |-> op, tag |-> tag]

\* the calls of LoadSceneTextures in source order
LoadSceneTexturesCalls ==
    << SetupCall("CreateGLTexture", "blackPlastic"),
       SetupCall("CreateGLTexture", "stand"),
       SetupCall("CreateGLTexture", "blade"),
       SetupCall("CreateGLTexture", "wall"),
       SetupCall("CreateGLTexture", "chip"),
       SetupCall("CreateGLTexture", "gpu"),
       SetupCall("BindGLTextures", "") >>

\* the same calls with the lights configured first
PrepareCallsLightsFirst ==
    << SetupCall("SetupSceneLights", "") >>
    \o LoadSceneTexturesCalls
    \o << SetupCall("DefineObjectMaterials", ""),
          SetupCall("LoadPlaneMesh", ""),
          SetupCall("LoadBoxMesh", ""),
          SetupCall("LoadCylinderMesh", ""),
          SetupCall("LoadSphereMesh", ""),
          SetupCall("LoadTorusMesh", ""),
          SetupCall("LoadExtraTorusMesh1", ""),
          SetupCall("LoadExtraTorusMesh2", "") >>

\* the calls of PrepareScene in source order, LoadSceneTextures expanded
PrepareCalls ==
    LoadSceneTexturesCalls
    \o << SetupCall("DefineObjectMaterials", ""),
          SetupCall("SetupSceneLights", ""),
          SetupCall("LoadPlaneMesh", ""),
          SetupCall("LoadBoxMesh", ""),
          SetupCall("LoadCylinderMesh", ""),
          SetupCall("LoadSphereMesh", ""),
          SetupCall("LoadTorusMesh", ""),
          SetupCall("LoadExtraTorusMesh1", ""),
          SetupCall("LoadExtraTorusMesh2", "") >>

\* what stbi_load can return for a texture file of the scene: nothing, an RGB
\* image, or an image with a channel count the upload does not handle
PrepareImages == {NoImage, [decoded |-> TRUE, channels |-> 3],
                  [decoded |-> TRUE, channels |-> 2]}

\* the CreateGLTexture calls of the running setup that returned false
FailedLoads ==
    Cardinality({i \in 1..Len(setupLog) :
                    setupLog[i].op = "CreateGLTexture" /\ ~setupLog[i].ok})

\* entry into PrepareScene; the program prepares the scene once
PrepareSceneBegin ==
    /\ fault = "none"
    /\ pc = 0
    /\ prepPc = 0
    /\ setupLog = <<>>
    /\ prepPc' = 1
    /\ lastCall' = Call("PrepareScene", "", TRUE, 0, 0)
    /\ lastWrites' = <<>>
    /\ UNCHANGED <<m_pShaderManager, m_basicMeshes, texVars, m_objectMaterials,
                   uniforms, glVars, outMaterial, fault, pc, sinceDraw, sinceStart,
                   drawLog, cmdLog, writeLog, setupLog, loadedMeshes, written>>

\* the next call statement of PrepareScene; a faulting call ends the program
PrepareStep ==
    /\ prepPc \in 1..Len(PrepareCalls)
    /\ LET c == PrepareCalls[prepPc] IN
         /\ \/ /\ c.op = "CreateGLTexture"
               /\ \E image \in PrepareImages :
                     /\ ValidImage(image) \/ FailedLoads < MaxFailedLoads
                     /\ CreateGLTexture(image, c.tag)
            \/ /\ c.op = "BindGLTextures"
               /\ BindGLTextures
            \/ /\ c.op = "DefineObjectMaterials"
               /\ DefineObjectMaterials
            \/ /\ c.op = "SetupSceneLights"
               /\ SetupSceneLights
            \/ /\ c.op \in MeshLoads
               /\ LoadMesh(c.op)
         /\ prepPc' = IF fault' = "none" THEN prepPc + 1 ELSE prepPc
         /\ setupLog' = Append(setupLog,
                               [op |-> c.op, tag |-> c.tag, ok |-> lastCall'.ok])
         /\ loadedMeshes' = IF c.op \in MeshLoads /\ fault' = "none"
                            THEN loadedMeshes \cup {c.op}
                            ELSE loadedMeshes
         /\ UNCHANGED <<pc, sinceDraw, sinceStart, drawLog, cmdLog, writeLog, written>>

\* PrepareScene returns after its last statement
PrepareSceneReturn ==
    /\ fault = "none"
    /\ prepPc = Len(PrepareCalls) + 1
    /\ prepPc' = 0
    /\ lastCall' = Call("PrepareSceneReturn", "", TRUE, 0, 0)
    /\ lastWrites' = <<>>
    /\ UNCHANGED <<m_pShaderManager, m_basicMeshes, texVars, m_objectMaterials,
                   uniforms, glVars, outMaterial, fault, pc, sinceDraw, sinceStart,
                   drawLog, cmdLog, writeLog, setupLog, loadedMeshes, written>>

\* PrepareScene has run to its return
Ready == prepPc = 0 /\ Len(setupLog) = Len(PrepareCalls)

----------------------------------------------------------------------------
(* Specifications *)

\* texture registry and shader facade, with a bounded number of loads
Next ==
    \/ \E image \in Images, tag \in TextureTags :
          /\ m_loadedTextures < MaxLoads
          /\ Cardinality(glTextures) < MaxGLNames
          /\ CreateGLTexture(image, tag)
          /\ UNCHANGED renderVars
    \/ \E tag \in LookupTags : CallFindTextureID(tag) /\ UNCHANGED renderVars
    \/ \E tag \in LookupTags : CallFindTextureSlot(tag) /\ UNCHANGED renderVars
    \/ \E c \in Colors : SetShaderColor(c) /\ UNCHANGED renderVars
    \/ \E tag \in LookupTags : SetShaderTexture(tag) /\ UNCHANGED renderVars
    \/ SetShaderTextures("wood", "metal") /\ UNCHANGED renderVars
    \/ \E uv \in UVs : SetTextureUVScale(uv) /\ UNCHANGED renderVars

Spec == Init /\ [][Next]_vars

\* valid images only, loaded until the registry array is full and beyond
CapacityNext ==
    \E image \in {i \in Images : i.decoded /\ SupportedChannels(i.channels)},
       tag \in CapacityTags : CreateGLTexture(image, tag) /\ UNCHANGED renderVars

SpecCapacity == Init /\ [][CapacityNext]_vars

\* texture registry lifetime: loading, binding, DestroyGLTextures, destructor;
\* no method is called on a destroyed object
TeardownNext ==
    \/ \E image \in Images, tag \in TextureTags :
          /\ m_basicMeshes = "ShapeMeshes"
          /\ m_loadedTextures < MaxLoads
          /\ Cardinality(glTextures) < MaxTeardownNames
          /\ CreateGLTexture(image, tag)
          /\ UNCHANGED renderVars
    \/ /\ m_basicMeshes = "ShapeMeshes"
       /\ BindGLTextures
       /\ UNCHANGED renderVars
    \/ /\ m_basicMeshes = "ShapeMeshes"
       /\ Cardinality(glTextures) + m_loadedTextures <= MaxTeardownNames
       /\ DestroyGLTextures
       /\ UNCHANGED renderVars
    \/ \E tag \in LookupTags :
          /\ m_basicMeshes = "ShapeMeshes"
          /\ CallFindTextureSlot(tag)
          /\ UNCHANGED renderVars
    \/ Destructor /\ UNCHANGED renderVars

SpecTeardown == Init /\ [][TeardownNext]_vars

\* the transformation composer on its own
TransformNext ==
    \E scaleXYZ \in TransformScales, X \in TransformDegrees,
       Y \in TransformDegrees, Z \in TransformDegrees,
       positionXYZ \in TransformPositions :
          SetTransformations(scaleXYZ, X, Y, Z, positionXYZ) /\ UNCHANGED renderVars

SpecTransform == Init /\ [][TransformNext]_vars

\* frames of RenderScene over registries filled before the first frame
RenderNext ==
    \/ \E image \in RenderImages, tag \in RenderTags :
          /\ pc = 0 /\ drawLog = <<>>
          /\ m_loadedTextures < MaxRenderLoads
          /\ CreateGLTexture(image, tag)
          /\ UNCHANGED renderVars
    \/ /\ pc = 0 /\ drawLog = <<>>
       /\ Len(m_objectMaterials) = 0
       /\ DefineObjectMaterials
       /\ UNCHANGED renderVars
    \/ /\ pc = 0 /\ drawLog = <<>>
       /\ Len(m_objectMaterials) = 0
       /\ DefineMaterial(Material("gold", <<80, 70, 10>>, <<60, 60, 60>>, 5000))
       /\ UNCHANGED renderVars
    \/ RenderSceneBegin
    \/ RenderStep
    \/ RenderSceneReturn

SpecRender == Init /\ [][RenderNext]_vars

\* a recorded trace: textures are loaded, then SetShaderTexture and
\* SetShaderColor are called in any order and their uniform writes are logged
TraceNext ==
    \/ \E image \in RenderImages, tag \in TextureTags :
          /\ cmdLog = <<>>
          /\ m_loadedTextures < MaxTraceLoads
          /\ CreateGLTexture(image, tag)
          /\ UNCHANGED renderVars
    \/ \E tag \in LookupTags :
          /\ Len(cmdLog) < MaxTraceCommands
          /\ SetShaderTexture(tag)
          /\ cmdLog' = Append(cmdLog, TextureCall(tag))
          /\ writeLog' = writeLog \o lastWrites'
          /\ UNCHANGED <<pc, sinceDraw, sinceStart, drawLog, written, prepPc,
                         setupLog, loadedMeshes>>
    \/ \E c \in Colors :
          /\ Len(cmdLog) < MaxTraceCommands
          /\ SetShaderColor(c)
          /\ cmdLog' = Append(cmdLog, ColorCall(c))
          /\ writeLog' = writeLog \o lastWrites'
          /\ UNCHANGED <<pc, sinceDraw, sinceStart, drawLog, written, prepPc,
                         setupLog, loadedMeshes>>

SpecTrace == Init /\ [][TraceNext]_vars

\* the life of the scene: PrepareScene once, then frames of RenderScene
SceneNext ==
    \/ PrepareSceneBegin
    \/ PrepareStep
    \/ PrepareSceneReturn
    \/ Ready /\ RenderSceneBegin
    \/ RenderStep
    \/ RenderSceneReturn

SpecScene == Init /\ [][SceneNext]_vars

\* a frame that has started keeps executing
SpecRenderFair ==
    SpecRender /\ WF_vars(RenderStep) /\ WF_vars(RenderSceneReturn)

----------------------------------------------------------------------------
(* Properties of the material registry (SpecMaterial) *)

HasMaterialTag(tag) ==
    \E i \in 1..Len(m_objectMaterials) : m_objectMaterials[i].tag = tag

\* position of the first-registered entry with the tag
FirstMaterialIndex(tag) ==
    CHOOSE i \in 1..Len(m_objectMaterials) :
        /\ m_objectMaterials[i].tag = tag
        /\ \A j \in 1..(i - 1) : m_objectMaterials[j].tag # tag

SameMaterialValues(a, b) ==
    /\ a.diffuseColor = b.diffuseColor
    /\ a.specularColor = b.specularColor
    /\ a.shininess = b.shininess

\* the tag has a later entry whose values differ from the first one's
RegisteredTwiceDifferently(tag) ==
    /\ HasMaterialTag(tag)
    /\ \E j \in 1..Len(m_objectMaterials) :
          /\ j > FirstMaterialIndex(tag)
          /\ m_objectMaterials[j].tag = tag
          /\ ~SameMaterialValues(m_objectMaterials[j],
                                 m_objectMaterials[FirstMaterialIndex(tag)])

\* C1: a SetShaderMaterial call whose tag no entry of m_objectMaterials has
\* writes none of material.diffuseColor, material.specularColor and
\* material.shininess: the uniforms keep their previous values.
C1_UnresolvedMaterialIsNoOp ==
    (lastCall.op = "SetShaderMaterial" /\ ~HasMaterialTag(lastCall.tag))
        => lastWrites = <<>>

\* C2: FindMaterial(tag, material) returns true with the values of the first
\* entry that has the tag, and returns false leaving `material` untouched
\* when no entry has the tag, whatever the registry holds.
C2_FindMaterialFirstMatchOrNotFound ==
    [][\A tag \in MaterialTags, m \in UninitMaterials :
          CallFindMaterial(tag, m) =>
             IF HasMaterialTag(tag)
             THEN /\ lastCall'.ok = TRUE
                  /\ SameMaterialValues(outMaterial',
                                        m_objectMaterials[FirstMaterialIndex(tag)])
             ELSE /\ lastCall'.ok = FALSE
                  /\ outMaterial' = m]_vars

\* C3: for every registered tag, also one registered again with other values,
\* FindMaterial yields the diffuse color, specular color and shininess of the
\* first-registered entry, and a SetShaderMaterial call that reached the
\* shader left exactly those values in the material uniforms.
C3_FirstRegisteredWins ==
    /\ \A tag \in MaterialTags, m \in UninitMaterials :
          HasMaterialTag(tag) =>
             SameMaterialValues(FindMaterial(tag, m).material,
                                m_objectMaterials[FirstMaterialIndex(tag)])
    /\ (/\ lastCall.op = "SetShaderMaterial"
        /\ HasMaterialTag(lastCall.tag)
        /\ m_pShaderManager = "shader")
          => LET first == m_objectMaterials[FirstMaterialIndex(lastCall.tag)] IN
               /\ uniforms["material.diffuseColor"] = first.diffuseColor
               /\ uniforms["material.specularColor"] = first.specularColor
               /\ uniforms["material.shininess"] = first.shininess

\* C3 witness: SetShaderMaterial ran for a tag registered twice with
\* different values and the uniforms hold the first entry's shininess
C3_Witness ==
    /\ lastCall.op = "SetShaderMaterial"
    /\ m_pShaderManager = "shader"
    /\ RegisteredTwiceDifferently(lastCall.tag)
    /\ lastWrites # <<>>
    /\ uniforms["material.shininess"] =
          m_objectMaterials[FirstMaterialIndex(lastCall.tag)].shininess

----------------------------------------------------------------------------
(* Properties of the texture registry (Spec, SpecCapacity) *)

HasTextureTag(tag) ==
    \E i \in 0..(m_loadedTextures - 1) : m_textureIDs[i].tag = tag


\* C4: FindTextureSlot of a loaded tag is a slot in [0, registered count)
\* that holds the tag, different tags resolve to different slots, and every
\* successful load of a valid RGB/RGBA image takes a slot of its own: the
\* slot right after the ones in use, whose earlier entries stay as they are.
C4_LoadedTagsHaveDistinctSlots ==
    /\ [](\A tag \in TextureTags :
            HasTextureTag(tag) =>
               /\ FindTextureSlot(tag) \in 0..(m_loadedTextures - 1)
               /\ m_textureIDs[FindTextureSlot(tag)].tag = tag
               /\ \A other \in TextureTags \ {tag} :
                     FindTextureSlot(other) # FindTextureSlot(tag))
    /\ [][\A image \in Images, tag \in TextureTags :
            (CreateGLTexture(image, tag) /\ ValidImage(image)) =>
               /\ lastCall'.ok = TRUE
               /\ m_loadedTextures' = m_loadedTextures + 1
               /\ m_textureIDs'[m_loadedTextures].tag = tag
               /\ \A i \in 0..(m_loadedTextures - 1) :
                     m_textureIDs'[i] = m_textureIDs[i]
               /\ FindTextureSlot(tag)' \in 0..m_loadedTextures]_vars

\* C4 witness: two images loaded, each tag resolving to its own slot
C4_Witness ==
    /\ lastCall.op = "CreateGLTexture"
    /\ lastCall.ok
    /\ lastCall.val = 1
    /\ m_loadedTextures = 2
    /\ {FindTextureSlot("wood"), FindTextureSlot("metal")} = {0, 1}

\* C5: a CreateGLTexture call whose file cannot be decoded, or decodes to a
\* channel count other than 3 or 4, returns false and leaves m_loadedTextures
\* and every registry entry unchanged, so every tag resolves as before.
C5_FailedLoadRegistersNothing ==
    [][\A image \in Images, tag \in TextureTags :
          (CreateGLTexture(image, tag) /\ ~ValidImage(image)) =>
             /\ lastCall'.ok = FALSE
             /\ m_loadedTextures' = m_loadedTextures
             /\ m_textureIDs' = m_textureIDs
             /\ \A t \in LookupTags : FindTextureSlot(t)' = FindTextureSlot(t)]_vars

\* C5 witness: a load of a 1- or 2-channel image failed on a non-empty
\* registry and its tag is still not found
C5_Witness ==
    /\ lastCall.op = "CreateGLTexture"
    /\ lastCall.ok = FALSE
    /\ lastCall.arg \in {1, 2}
    /\ m_loadedTextures = 1
    /\ FindTextureSlot(lastCall.tag) = -1

\* C6: the registry never holds more textures than the 16 slots of
\* m_textureIDs, and no load writes behind the array.
C6_RegistryWithinCapacity ==
    /\ m_loadedTextures <= MaxTextureSlots
    /\ fault # "oob_write"

\* C8: for an absent tag FindTextureSlot and FindTextureID return -1, for a
\* registered one FindTextureSlot stays below the registered count, and a
\* lookup call changes nothing in the registry.
C8_LookupMissIsSentinel ==
    /\ [](\A tag \in LookupTags :
            IF HasTextureTag(tag)
            THEN FindTextureSlot(tag) \in 0..(m_loadedTextures - 1)
            ELSE FindTextureSlot(tag) = -1 /\ FindTextureID(tag) = -1)
    /\ []((lastCall.op \in {"FindTextureSlot", "FindTextureID"}
             /\ ~HasTextureTag(lastCall.tag)) => lastCall.val = -1)
    /\ [][\A tag \in LookupTags :
            (CallFindTextureSlot(tag) \/ CallFindTextureID(tag)) =>
               (m_textureIDs' = m_textureIDs /\ m_loadedTextures' = m_loadedTextures
                  /\ fault' = "none")]_vars

\* C8 witness: both lookups missed on a non-empty registry
C8_Witness ==
    /\ lastCall.op = "FindTextureID"
    /\ lastCall.prev = "FindTextureSlot"
    /\ lastCall.tag = "absent"
    /\ lastCall.val = -1
    /\ m_loadedTextures >= 1

----------------------------------------------------------------------------
(* Properties of the shader parameter facade (Spec) *)

\* C7: after SetShaderTexture with a tag that is not registered the shader
\* is not left sampling (bUseTexture true) from the sentinel slot -1.
C7_MissDegradesToUntextured ==
    (/\ lastCall.op = "SetShaderTexture"
     /\ ~HasTextureTag(lastCall.tag)
     /\ m_pShaderManager = "shader")
        => ~(uniforms["bUseTexture"] = 1 /\ uniforms["objectTexture"] = -1)

\* C9: SetShaderColor(r, g, b, a) on a scene manager that has a shader, from
\* any uniform state, leaves bUseTexture false, objectColor = (r, g, b, a)
\* and blendFactor = 0.
C9_FlatColorZeroesBlend ==
    [][\A c \in Colors :
          (SetShaderColor(c) /\ m_pShaderManager = "shader") =>
             /\ uniforms'["bUseTexture"] = 0
             /\ uniforms'["objectColor"] = c
             /\ uniforms'["blendFactor"] = 0]_vars

\* C9 witness: the first call on a shader whose blendFactor was left at 0.5
\* (the stale uniform state, still recognisable by its UVscale)
C9_Witness ==
    /\ lastCall.op = "SetShaderColor"
    /\ lastCall.prev = "none"
    /\ m_pShaderManager = "shader"
    /\ uniforms["UVscale"] = StaleUniforms["UVscale"]
    /\ uniforms["objectColor"] \in Colors
    /\ uniforms["blendFactor"] = 0

\* C10: after SetShaderColor or SetShaderTexture, whatever was called before,
\* blendFactor is 0 and bUseTexture is that of the last call; SetShaderTexture
\* right after SetShaderColor leaves bUseTexture true and the sampler at the
\* slot the tag resolves to.
C10_NoResidualBlend ==
    /\ (lastCall.op \in {"SetShaderColor", "SetShaderTexture"}
          /\ m_pShaderManager = "shader")
         => /\ uniforms["blendFactor"] = 0
            /\ uniforms["bUseTexture"] =
                  (IF lastCall.op = "SetShaderTexture" THEN 1 ELSE 0)
    /\ (lastCall.op = "SetShaderTexture" /\ lastCall.prev = "SetShaderColor"
          /\ m_pShaderManager = "shader")
         => /\ uniforms["bUseTexture"] = 1
            /\ uniforms["objectTexture"] = FindTextureSlot(lastCall.tag)
            /\ uniforms["blendFactor"] = 0

\* C10 witness: SetShaderTexture of the tag at slot 1 right after SetShaderColor
C10_Witness ==
    /\ lastCall.op = "SetShaderTexture"
    /\ lastCall.prev = "SetShaderColor"
    /\ m_pShaderManager = "shader"
    /\ uniforms["objectColor"] \in Colors
    /\ uniforms["bUseTexture"] = 1
    /\ uniforms["objectTexture"] = 1
    /\ uniforms["blendFactor"] = 0

\* registration index of the first entry that has the tag
FirstTextureIndex(tag) ==
    CHOOSE i \in 0..(m_loadedTextures - 1) :
        /\ m_textureIDs[i].tag = tag
        /\ \A j \in 0..(i - 1) : m_textureIDs[j].tag # tag

\* C11: SetShaderTexture(tag) for a registered tag, on a scene manager that
\* has a shader, leaves bUseTexture true and the sampler objectTexture at the
\* registration index of the first entry with that tag, which is what
\* FindTextureSlot(tag) resolves.
C11_SamplerIsFirstRegisteredSlot ==
    (/\ lastCall.op = "SetShaderTexture"
     /\ HasTextureTag(lastCall.tag)
     /\ m_pShaderManager = "shader")
        => /\ uniforms["bUseTexture"] = 1
           /\ uniforms["objectTexture"] = FirstTextureIndex(lastCall.tag)
           /\ FindTextureSlot(lastCall.tag) = FirstTextureIndex(lastCall.tag)

\* C11 witness: the tag is registered at slots 0 and 1 and the sampler that
\* started at 1 (stale uniforms) now holds slot 0
C11_Witness ==
    /\ lastCall.op = "SetShaderTexture"
    /\ m_pShaderManager = "shader"
    /\ m_loadedTextures = 2
    /\ m_textureIDs[0].tag = lastCall.tag
    /\ m_textureIDs[1].tag = lastCall.tag
    /\ uniforms["UVscale"] = StaleUniforms["UVscale"]
    /\ uniforms["bUseTexture"] = 1
    /\ uniforms["objectTexture"] = 0

\* C15: no two registered texture entries carry the same tag and no two
\* material entries carry the same tag.
C15_TagsUnique ==
    /\ \A i \in 0..(m_loadedTextures - 1), j \in 0..(m_loadedTextures - 1) :
          i # j => m_textureIDs[i].tag # m_textureIDs[j].tag
    /\ \A i \in 1..Len(m_objectMaterials), j \in 1..Len(m_objectMaterials) :
          i # j => m_objectMaterials[i].tag # m_objectMaterials[j].tag

----------------------------------------------------------------------------
(* Properties of the texture registry lifetime (SpecTeardown) *)

RegisteredIDs == {m_textureIDs[i].ID : i \in 0..(m_loadedTextures - 1)}

\* C12: a DestroyGLTextures call leaves none of the registered texture names
\* allocated and creates no new texture name.
C12_DestroyFreesTextures ==
    [][DestroyGLTextures =>
         /\ RegisteredIDs \cap glTextures' = {}
         /\ glTextures' \subseteq glTextures]_vars

\* C13: a DestroyGLTextures call right after a DestroyGLTextures call changes
\* neither the registry nor the GL texture state.
C13_DoubleReleaseIsNoOp ==
    [][(lastCall.op = "DestroyGLTextures" /\ DestroyGLTextures) =>
         (m_textureIDs' = m_textureIDs
            /\ m_loadedTextures' = m_loadedTextures
            /\ glTextures' = glTextures
            /\ glTextureUnits' = glTextureUnits
            /\ glActiveTexture' = glActiveTexture)]_vars

\* C14: once the destructor has run, no texture name held in the registry is
\* still allocated.
C14_DestructorReleasesTextures ==
    lastCall.op = "~SceneManager" => RegisteredIDs \cap glTextures = {}

\* C16: a tag that resolves to slot i keeps resolving to slot i across every
\* later step: loads that succeed or fail, of the same or another tag,
\* BindGLTextures, DestroyGLTextures.
C16_SlotsAreStable ==
    [][\A tag \in LookupTags :
          FindTextureSlot(tag) # -1 => FindTextureSlot(tag)' = FindTextureSlot(tag)]_vars

\* C16 witness: after DestroyGLTextures the tag at slot 0 was loaded again
\* and still resolves to slot 0
C16_Witness ==
    /\ lastCall.op = "CreateGLTexture"
    /\ lastCall.prev = "DestroyGLTextures"
    /\ lastCall.ok
    /\ m_loadedTextures = 2
    /\ m_textureIDs[0].tag = lastCall.tag
    /\ m_textureIDs[1].tag = lastCall.tag
    /\ FindTextureSlot(lastCall.tag) = 0

\* C17: BindGLTextures leaves texture unit i bound to the name of the i-th
\* registered texture for every i below the registered count and leaves the
\* binding of every unit at or above the count as it was.
C17_BindByRegistrationOrder ==
    [][BindGLTextures =>
         /\ \A i \in 0..(m_loadedTextures - 1) :
               glTextureUnits'[i] = m_textureIDs[i].ID
         /\ \A u \in m_loadedTextures..(MaxTextureSlots - 1) :
               glTextureUnits'[u] = glTextureUnits[u]]_vars

\* C17 witness: two textures bound to units 0 and 1
C17_Witness ==
    /\ lastCall.op = "BindGLTextures"
    /\ m_loadedTextures = 2
    /\ m_textureIDs[0].ID # m_textureIDs[1].ID
    /\ glTextureUnits[0] = m_textureIDs[0].ID
    /\ glTextureUnits[1] = m_textureIDs[1].ID
    /\ glActiveTexture = 1

----------------------------------------------------------------------------
(* Properties of the transformation composer (SpecTransform) *)

\* a point moved by the single transformations, without any matrix
ScalePoint(s, p)  == <<(s[1] * p[1]) \div Unit, (s[2] * p[2]) \div Unit,
                       (s[3] * p[3]) \div Unit>>
RotatePointX(d, p) == <<p[1],
                        (Cos(d) * p[2] - Sin(d) * p[3]) \div Unit,
                        (Sin(d) * p[2] + Cos(d) * p[3]) \div Unit>>
RotatePointY(d, p) == <<(Cos(d) * p[1] + Sin(d) * p[3]) \div Unit,
                        p[2],
                        (Cos(d) * p[3] - Sin(d) * p[1]) \div Unit>>
RotatePointZ(d, p) == <<(Cos(d) * p[1] - Sin(d) * p[2]) \div Unit,
                        (Sin(d) * p[1] + Cos(d) * p[2]) \div Unit,
                        p[3]>>
TranslatePoint(t, p) == <<p[1] + t[1], p[2] + t[2], p[3] + t[3]>>

\* the point a model matrix maps the point p to
MatrixTimesCoordinate(m, p, i) ==
    (m[i][1] * p[1] + m[i][2] * p[2] + m[i][3] * p[3] + m[i][4] * Unit) \div Unit
MatrixTimesPoint(m, p) ==
    <<MatrixTimesCoordinate(m, p, 1), MatrixTimesCoordinate(m, p, 2),
      MatrixTimesCoordinate(m, p, 3)>>

TestPoints == {<<1000, 0, 0>>, <<0, 1000, 0>>, <<0, 0, 1000>>, <<1000, 2000, 3000>>}

\* C20: every SetTransformations call on a scene manager with a shader writes
\* the model uniform, and the matrix written maps each point to the point
\* obtained by scaling it first, then rotating about X, then Y, then Z, then
\* translating - whatever value the uniform held before the call.
C20_ComposeOrder ==
    [][\A scaleXYZ \in TransformScales, X \in TransformDegrees,
          Y \in TransformDegrees, Z \in TransformDegrees,
          positionXYZ \in TransformPositions :
          (SetTransformations(scaleXYZ, X, Y, Z, positionXYZ)
             /\ m_pShaderManager = "shader") =>
             /\ Len(lastWrites') = 1
             /\ lastWrites'[1][1] = "model"
             /\ lastWrites'[1][2] = uniforms'["model"]
             /\ uniforms'["model"][4] = <<0, 0, 0, Unit>>
             /\ \A p \in TestPoints :
                   MatrixTimesPoint(uniforms'["model"], p) =
                      TranslatePoint(positionXYZ,
                         RotatePointZ(Z,
                            RotatePointY(Y,
                               RotatePointX(X, ScalePoint(scaleXYZ, p)))))]_vars

\* C20 witness: scale (2, 3, 0.5), rotation (90, 0, 90) degrees, translation
\* (1, -2, 3) gave the hand-computed matrix x' = z/2 + 1, y' = 2x - 2,
\* z' = 3y + 3
C20_Witness ==
    /\ lastCall.op = "SetTransformations"
    /\ m_pShaderManager = "shader"
    /\ uniforms["model"] = << <<0, 0, 500, 1000>>, <<2000, 0, 0, -2000>>,
                              <<0, 3000, 0, 3000>>, <<0, 0, 0, 1000>> >>

----------------------------------------------------------------------------
(* Properties of RenderScene (SpecRender, SpecRenderFair) *)

\* the step issues a mesh draw
DrawStep == pc \in 1..Len(RenderCalls) /\ Len(drawLog') = Len(drawLog) + 1

SceneDraws ==
    LET d == SelectSeq(RenderCalls, LAMBDA c : c.op \in MeshDraws)
    IN  [i \in 1..Len(d) |-> d[i].op]

\* the number of mesh draws among the first n call statements
RECURSIVE DrawsAmong(_)
DrawsAmong(n) ==
    IF n = 0 THEN 0
    ELSE DrawsAmong(n - 1) + (IF RenderCalls[n].op \in MeshDraws THEN 1 ELSE 0)

\* C19: with a shader attached, whatever the texture and material registries
\* hold, no call of RenderScene faults, the draws issued so far are the
\* scene's draws in source order, and a frame that starts runs to its return
\* having issued every mesh draw of the scene.
C19_FrameCompletes ==
    /\ [](m_pShaderManager = "shader" =>
             /\ fault = "none"
             /\ pc >= 1 =>
                  /\ Len(drawLog) = DrawsAmong(pc - 1)
                  /\ drawLog = SubSeq(SceneDraws, 1, Len(drawLog))
             /\ lastCall.op = "RenderSceneReturn" => drawLog = SceneDraws)
    /\ (m_pShaderManager = "shader" /\ pc = 1)
          ~> (pc = 0 /\ lastCall.op = "RenderSceneReturn" /\ drawLog = SceneDraws)

\* C19 witness: a frame returned with every texture tag and every material tag
\* missing - no texture loaded after a failed load, only "gold" registered -
\* and 154 meshes drawn
C19_Witness ==
    /\ m_pShaderManager = "shader"
    /\ lastCall.op = "RenderSceneReturn"
    /\ m_loadedTextures = 0
    /\ Len(m_objectMaterials) = 1
    /\ uniforms["objectTexture"] = -1
    /\ Len(drawLog) = 154
    /\ drawLog[1] = "DrawBoxMesh"
    /\ drawLog[154] = "DrawBoxMesh"
    /\ fault = "none"

----------------------------------------------------------------------------
(* Properties of a recorded trace (SpecTrace) *)

\* the uniforms the end-to-end scenario observes
TraceUniforms == {"bUseTexture", "objectTexture", "objectColor"}

\* the writes to those uniforms among the logged writes
ObservedWrites == SelectSeq(writeLog, LAMBDA w : w[1] \in TraceUniforms)

\* the writes the declared commands call for: texture-enable true and the
\* sampler index of the tag's slot, or texture-enable false and the colour
RECURSIVE ExpectedWrites(_)
ExpectedWrites(cmds) ==
    IF cmds = <<>> THEN <<>>
    ELSE (IF Head(cmds).op = "SetShaderTexture"
          THEN << <<"bUseTexture", 1>>,
                  <<"objectTexture", FirstTextureIndex(Head(cmds).tag)>> >>
          ELSE << <<"bUseTexture", 0>>, <<"objectColor", Head(cmds).args>> >>)
         \o ExpectedWrites(Tail(cmds))

\* C21: on a scene manager with a shader, after any sequence of
\* SetShaderTexture calls on registered tags and SetShaderColor calls, the
\* writes the shader received to texture-enable, sampler index and colour are
\* exactly those the commands declare, in the order of the commands.
C21_WritesFollowCommands ==
    (/\ m_pShaderManager = "shader"
     /\ \A i \in 1..Len(cmdLog) :
           cmdLog[i].op = "SetShaderTexture" => HasTextureTag(cmdLog[i].tag))
        => ObservedWrites = ExpectedWrites(cmdLog)

\* C21 witness: "wood" at slot 0, "metal" at slot 1, two textured commands and
\* one flat-coloured one
C21_Witness ==
    /\ m_pShaderManager = "shader"
    /\ m_loadedTextures = 2
    /\ m_textureIDs[0].tag = "wood"
    /\ m_textureIDs[1].tag = "metal"
    /\ cmdLog = <<TextureCall("wood"), TextureCall("metal"),
                  ColorCall(<<20, 40, 60, 20>>)>>
    /\ ObservedWrites = << <<"bUseTexture", 1>>, <<"objectTexture", 0>>,
                           <<"bUseTexture", 1>>, <<"objectTexture", 1>>,
                           <<"bUseTexture", 0>>,
                           <<"objectColor", <<20, 40, 60, 20>> >> >>

----------------------------------------------------------------------------
(* Resources of a failed load (Spec) *)

\* C26: after a CreateGLTexture call that returned false, every GL texture
\* name generated so far is recorded in the registry, no decoded image is left
\* unfreed, and GL_TEXTURE_2D of the active unit is unbound.
C26_FailedLoadLeaksNothing ==
    (lastCall.op = "CreateGLTexture" /\ ~lastCall.ok)
        => /\ glTextures \subseteq RegisteredIDs
           /\ imageBuffers = 0
           /\ glTextureUnits[glActiveTexture] = 0

----------------------------------------------------------------------------
(* Properties of the scene setup (SpecScene) *)

\* positions in setupLog at which op was called
SetupPositions(op) == {i \in 1..Len(setupLog) : setupLog[i].op = op}

\* every call of op a precedes every call of op b
SetupBefore(a, b) ==
    \A i \in SetupPositions(a), j \in SetupPositions(b) : i < j

\* C22: in a PrepareScene call, BindGLTextures runs after every
\* CreateGLTexture, DefineObjectMaterials after BindGLTextures,
\* SetupSceneLights after DefineObjectMaterials and every mesh load after
\* SetupSceneLights; no step other than the texture loads runs twice, and when
\* PrepareScene has returned every step has run.
C22_SetupOrder ==
    /\ SetupBefore("CreateGLTexture", "BindGLTextures")
    /\ SetupBefore("BindGLTextures", "DefineObjectMaterials")
    /\ SetupBefore("DefineObjectMaterials", "SetupSceneLights")
    /\ \A mesh \in MeshLoads : SetupBefore("SetupSceneLights", mesh)
    /\ \A op \in {"BindGLTextures", "DefineObjectMaterials", "SetupSceneLights"}
                 \cup MeshLoads : Cardinality(SetupPositions(op)) <= 1
    /\ Ready =>
          /\ Cardinality(SetupPositions("CreateGLTexture")) = 6
          /\ \A op \in {"BindGLTextures", "DefineObjectMaterials",
                        "SetupSceneLights"} \cup MeshLoads :
                Cardinality(SetupPositions(op)) = 1
          /\ loadedMeshes = MeshLoads
          /\ Len(m_objectMaterials) = 5
          /\ uniforms["bUseLighting"] = 1

\* C22 witness: PrepareScene has returned; the texture loads came first, then
\* the bind, the materials, the lights and the seven mesh loads
C22_Witness ==
    /\ Ready
    /\ lastCall.op = "PrepareSceneReturn"
    /\ [i \in 1..Len(setupLog) |-> setupLog[i].op] =
          <<"CreateGLTexture", "CreateGLTexture", "CreateGLTexture",
            "CreateGLTexture", "CreateGLTexture", "CreateGLTexture",
            "BindGLTextures", "DefineObjectMaterials", "SetupSceneLights",
            "LoadPlaneMesh", "LoadBoxMesh", "LoadCylinderMesh", "LoadSphereMesh",
            "LoadTorusMesh", "LoadExtraTorusMesh1", "LoadExtraTorusMesh2">>
    /\ glTextureUnits[5] = m_textureIDs[5].ID
    /\ m_loadedTextures = 6

\* the number of CreateGLTexture calls among the first n setup calls that
\* returned true
RECURSIVE LoadsSucceeded(_)
LoadsSucceeded(n) ==
    IF n = 0 THEN 0
    ELSE LoadsSucceeded(n - 1)
         + (IF setupLog[n].op = "CreateGLTexture" /\ setupLog[n].ok THEN 1 ELSE 0)

\* C23: every CreateGLTexture call of the setup that succeeded registered its
\* tag at the slot equal to the number of loads that had succeeded before it,
\* and the registry holds as many entries as loads succeeded: a failed load
\* uses no slot.
C23_SlotCountsSuccessfulLoads ==
    /\ m_loadedTextures = LoadsSucceeded(Len(setupLog))
    /\ \A i \in 1..Len(setupLog) :
          (setupLog[i].op = "CreateGLTexture" /\ setupLog[i].ok) =>
             /\ m_textureIDs[LoadsSucceeded(i - 1)].tag = setupLog[i].tag
             /\ FindTextureSlot(setupLog[i].tag) = LoadsSucceeded(i - 1)

\* C23 witness: the second texture file ("stand") failed to load, so "blade",
\* the third, is at slot 1 and "gpu", the sixth, at slot 4
C23_Witness ==
    /\ Ready
    /\ setupLog[2].tag = "stand"
    /\ ~setupLog[2].ok
    /\ m_loadedTextures = 5
    /\ m_textureIDs[0].tag = "blackPlastic"
    /\ m_textureIDs[1].tag = "blade"
    /\ m_textureIDs[4].tag = "gpu"
    /\ FindTextureSlot("stand") = -1

\* the uniforms of the lighting set-up: the switch and the fields of the
\* MaxPointLights entries of the shader's light array
LightingUniforms ==
    {"bUseLighting"}
    \cup { LightUniform(i, field) :
             i \in 0..(MaxPointLights - 1),
             field \in {"position", "ambient", "diffuse", "specular", "constant",
                        "linear", "quadratic", "bActive"} }

\* names of the uniforms a sequence of writes goes to
WrittenNames(ws) == {ws[i][1] : i \in 1..Len(ws)}

\* C24: SetupSceneLights writes only bUseLighting and fields of light indices
\* 0..7, it runs at most once during the setup, and no step of RenderScene
\* writes bUseLighting or a pointLights uniform or changes their values.
C24_LightsSetOnceAtSetup ==
    /\ []((lastCall.op = "SetupSceneLights" /\ fault = "none")
             => /\ WrittenNames(lastWrites) \subseteq LightingUniforms
                /\ lastWrites # <<>>)
    /\ [](Cardinality(SetupPositions("SetupSceneLights")) <= 1)
    /\ [][(pc # 0 \/ pc' # 0)
             => /\ WrittenNames(lastWrites') \cap LightingUniforms = {}
                /\ \A n \in LightingUniforms : uniforms'[n] = uniforms[n]]_vars

\* C24 witness: the last mesh of a frame has been drawn and the seven lights
\* are as SetupSceneLights configured them, light 7 never written
C24_Witness ==
    /\ Ready
    /\ lastCall.op \in MeshDraws
    /\ Len(drawLog) = 154
    /\ uniforms["bUseLighting"] = 1
    /\ uniforms["pointLights[0].position"] = <<-4000, 8000, 5000>>
    /\ uniforms["pointLights[6].quadratic"] = 32
    /\ uniforms["pointLights[6].bActive"] = 1
    /\ uniforms["pointLights[7].bActive"] # 1

\* C25: with m_pShaderManager NULL no operation dereferences it.
C25_NullShaderIsSafe ==
    m_pShaderManager = "NULL" => fault # "null_deref"

\* tags RenderScene passes to op
ReferencedTags(op) ==
    {RenderCalls[i].tag : i \in {j \in 1..Len(RenderCalls) : RenderCalls[j].op = op}}

\* C27: when PrepareScene has returned and all six texture loads succeeded,
\* every texture tag RenderScene passes to SetShaderTexture resolves to a slot
\* other than -1 and every material tag it passes to SetShaderMaterial is the
\* tag of a defined material; the tags are the six and the five of the scene.
C27_ReferencedTagsRegistered ==
    (Ready /\ FailedLoads = 0) =>
        /\ ReferencedTags("SetShaderTexture") =
              {"stand", "wall", "blackPlastic", "blade", "chip", "gpu"}
        /\ ReferencedTags("SetShaderMaterial") =
              {"wood", "plastic", "middle", "mother", "glass"}
        /\ \A tag \in ReferencedTags("SetShaderTexture") :
              /\ FindTextureSlot(tag) # -1
              /\ m_textureIDs[FindTextureSlot(tag)].tag = tag
        /\ \A tag \in ReferencedTags("SetShaderMaterial") :
              /\ HasMaterialTag(tag)
              /\ FindMaterialLoop(tag, glassMaterial, 0, FALSE).bFound
        /\ (lastCall.op = "SetShaderTexture" /\ m_pShaderManager = "shader")
              => uniforms["objectTexture"] # -1

\* C27 witness: in a frame after a setup without failed loads, the texture of
\* the graphics card has just resolved to slot 5, with the shininess of a
\* defined material in effect
C27_Witness ==
    /\ Ready
    /\ FailedLoads = 0
    /\ lastCall.op = "SetShaderTexture"
    /\ lastCall.tag = "gpu"
    /\ uniforms["objectTexture"] = 5
    /\ uniforms["material.shininess"] \in
          {m_objectMaterials[i].shininess : i \in 1..Len(m_objectMaterials)}

----------------------------------------------------------------------------
(* Properties of the frames of the prepared scene (SpecRender, SpecScene) *)

\* the greatest position below n at which RenderScene calls an op of ops
\* (0: none)
RECURSIVE LastCallBefore(_, _)
LastCallBefore(ops, n) ==
    IF n <= 1 THEN 0
    ELSE IF RenderCalls[n - 1].op \in ops THEN n - 1
    ELSE LastCallBefore(ops, n - 1)

\* C28: when RenderScene draws a mesh, its latest SetTransformations call is
\* later than its previous mesh draw (there is one before the first draw),
\* and with a shader attached the model uniform holds the matrix composed from
\* the arguments of that call.
C28_FreshModelMatrixPerDraw ==
    [][DrawStep =>
          LET t == LastCallBefore({"SetTransformations"}, pc)
              d == LastCallBefore(MeshDraws, pc)
          IN  /\ t > d
              /\ "SetTransformations" \in sinceDraw
              /\ m_pShaderManager = "shader" =>
                    uniforms["model"] =
                       ModelView(RenderCalls[t].args[1], RenderCalls[t].args[2],
                                 RenderCalls[t].args[3], RenderCalls[t].args[4],
                                 RenderCalls[t].args[5])]_vars

\* C28 witness: the last mesh of the frame was drawn with the matrix of the
\* side glass panel: scale (0.1, 13, 6), no rotation, position (7, 7.5, 0)
C28_Witness ==
    /\ m_pShaderManager = "shader"
    /\ lastCall.op = "DrawBoxMesh"
    /\ Len(drawLog) = 154
    /\ uniforms["model"] = << <<100, 0, 0, 7000>>, <<0, 13000, 0, 7500>>,
                              <<0, 0, 6000, 0>>, <<0, 0, 0, 1000>> >>

\* the draw being issued is flat-coloured with an alpha below 1.0
TranslucentDraw ==
    uniforms["bUseTexture"] = 0 /\ uniforms["objectColor"][4] < 100

\* C29: in a frame of the prepared scene, the mesh draws issued with a flat
\* colour of alpha below 1.0 are exactly the last two of the 154; both have
\* alpha 0.2 and the glass material, and every draw before them is textured or
\* has a flat colour of alpha 1.0.
C29_GlassPanelsLast ==
    [][DrawStep =>
          /\ TranslucentDraw <=> Len(drawLog) >= 152
          /\ Len(drawLog) >= 152 =>
                /\ uniforms["objectColor"][4] = 20
                /\ uniforms["material.diffuseColor"] = glassMaterial.diffuseColor
                /\ uniforms["material.specularColor"] = glassMaterial.specularColor
                /\ uniforms["material.shininess"] = glassMaterial.shininess
          /\ Len(drawLog) < 152 =>
                \/ uniforms["bUseTexture"] = 1
                \/ uniforms["objectColor"][4] = 100]_vars

\* C29 witness: the 154th and last mesh was drawn translucent, with the glass
\* material
C29_Witness ==
    /\ Ready
    /\ lastCall.op = "DrawBoxMesh"
    /\ pc = Len(RenderCalls) + 1
    /\ Len(drawLog) = 154
    /\ uniforms["bUseTexture"] = 0
    /\ uniforms["objectColor"] = <<10, 10, 10, 20>>
    /\ uniforms["material.shininess"] = 9500

\* C30: in a frame of the prepared scene, the model matrix, the texture
\* switch, the material uniforms and - for a textured draw - the sampler or
\* - for a flat-coloured draw - the colour in effect at a mesh draw have all
\* been written since RenderScene was entered, and every material written was
\* found in the registry; no such value is left over from before the frame.
C30_DrawStateWrittenInFrame ==
    /\ [][DrawStep =>
             /\ {"model", "bUseTexture", "material.diffuseColor",
                 "material.specularColor", "material.shininess"} \subseteq written
             /\ uniforms["bUseTexture"] = 1 => "objectTexture" \in written
             /\ uniforms["bUseTexture"] = 0 => "objectColor" \in written]_vars
    /\ []((pc >= 1 /\ lastCall.op = "SetShaderMaterial" /\ fault = "none")
             => /\ HasMaterialTag(lastCall.tag)
                /\ Len(lastWrites) = 3
                /\ lastWrites[1][2] =
                      m_objectMaterials[FirstMaterialIndex(lastCall.tag)].diffuseColor
                /\ lastWrites[3][2] =
                      m_objectMaterials[FirstMaterialIndex(lastCall.tag)].shininess)

\* C30 witness: the first mesh of a frame was drawn over uniforms left from
\* earlier use, with its texture, material and matrix written in the frame
\* and the UV scale untouched
C30_Witness ==
    /\ Ready
    /\ Len(drawLog) = 1
    /\ lastCall.op = "DrawBoxMesh"
    /\ written = {"model", "bUseTexture", "objectTexture", "blendTexture",
                  "blendFactor", "material.diffuseColor",
                  "material.specularColor", "material.shininess"}
    /\ uniforms["UVscale"] = <<300, 300>>
    /\ uniforms["material.shininess"] = woodMaterial.shininess
    /\ uniforms["model"] = << <<20000, 0, 0, 0>>, <<0, 1000, 0, 0>>,
                              <<0, 0, 15000, 0>>, <<0, 0, 0, 1000>> >>

====
